---- MODULE Spec2Model ----
(***************************************************************************)
(* The DNA helix hero visual: src/src/components/three/DNAHelix.tsx        *)
(* (geometry generation, mount effects, per-frame callback) and            *)
(* HeroScene.tsx (the loading boundary around the canvas).                 *)
(*                                                                         *)
(* JavaScript numbers are IEEE-754 binary64 values.  They are modelled     *)
(* bit-exactly: a number is a record [s, e, m] denoting                    *)
(* (-1)^s * m * 2^e with m a 53-bit integer held in four base-2^15 limbs   *)
(* (least significant first), and every arithmetic operator of the source  *)
(* is the correctly rounded (round-to-nearest, ties-to-even) operation.    *)
(***************************************************************************)
EXTENDS Integers, Naturals, Sequences, FiniteSets, TLC

(***************************************************************************)
(* Natural numbers of arbitrary size: sequences of limbs, base LimbBase.   *)
(***************************************************************************)
LimbBits == 15

LimbBase == 2 ^ LimbBits

MantBits == 53

\* mantissa bits of binary32
Float32Bits == 24

\* extra quotient bits kept before rounding
GuardBits == 4

\* The last of steps.  TLC evaluates the arguments of an operator and the
\* definitions of a LET where they are first used; the elements of a tuple it
\* evaluates in their order, so InOrder(<<a, b, c>>) is c with a and b
\* evaluated first.
InOrder(steps) == steps[Len(steps)]

\* the function f on 1..n as a sequence
AsSeq(f) == f \o << >>

\* Call(op, a) is the operator named op applied to the arguments a: the
\* operators of the arithmetic and of three.js are applied by name, and TLC
\* accounts for each of them once
RECURSIVE Call(_, _)

Max2(x, y) == IF x >= y THEN x ELSE y

SetMax(S) == CHOOSE x \in S : \A y \in S : y <= x

Zeros(n) == AsSeq([i \in 1..n |-> 0])

\* limb i of a, 0 beyond its length
Limb(a, i) == IF i >= 1 /\ i <= Len(a) THEN a[i] ELSE 0

\* a without leading zero limbs
BTrim(a) == Call("BTrim", <<a>>)

BTrimBody(a) ==
  LET nz == {i \in 1..Len(a) : a[i] # 0}
  IN  IF nz = {} THEN << >> ELSE SubSeq(a, 1, SetMax(nz))

BIsZero(a) == \A i \in 1..Len(a) : a[i] = 0

\* one pass of carries: every column keeps its low limb and hands the rest up
CarryPass(v) ==
  AsSeq([k \in 1..(Len(v) + 1) |->
           (Limb(v, k) % LimbBase) + (Limb(v, k - 1) \div LimbBase)])

\* the carry into column k of columns u[j] <= LimbBase: some lower column
\* overflows and every column in between is full
CarryIn(u, k) ==
  \E j \in 1..(k - 1) : u[j] >= LimbBase /\ \A m \in (j + 1)..(k - 1) : u[m] = LimbBase - 1

\* the limbs of the number with columns v[k] * LimbBase^(k-1), 0 <= v[k] < 2^30
BNorm(v) == Call("BNorm", <<v>>)

BNormBody(v) ==
  LET p == CarryPass(v)
      u == CarryPass(p)
      r == AsSeq([k \in 1..(Len(u) + 1) |->
                    (Limb(u, k) + IF CarryIn(u, k) THEN 1 ELSE 0) % LimbBase])
  IN  InOrder(<<p, u, r, BTrim(r)>>)

BAdd(a, b) == Call("BAdd", <<a, b>>)

BAddBody(a, b) ==
  LET v == AsSeq([k \in 1..Max2(Len(a), Len(b)) |-> Limb(a, k) + Limb(b, k)])
  IN  InOrder(<<a, b, v, BNorm(v)>>)

\* a - b for a >= b: a plus the complement of b plus one, less LimbBase^n
BSub(a, b) == Call("BSub", <<a, b>>)

BSubBody(a, b) ==
  LET n == Max2(Len(a), Len(b))
      v == AsSeq([k \in 1..n |->
                    Limb(a, k) + (LimbBase - 1 - Limb(b, k)) + IF k = 1 THEN 1 ELSE 0])
      t == BNorm(v)
  IN  InOrder(<<a, b, v, t, BTrim(SubSeq(t, 1, n))>>)

\* -1, 0, 1 as a < b, a = b, a > b
BCmp(a, b) == Call("BCmp", <<a, b>>)

BCmpBody(a, b) ==
  LET d == {i \in 1..Max2(Len(a), Len(b)) : Limb(a, i) # Limb(b, i)}
      c == IF d = {} THEN 0
           ELSE IF Limb(a, SetMax(d)) > Limb(b, SetMax(d)) THEN 1 ELSE -1
  IN  InOrder(<<a, b, c>>)

\* a * d for one limb d
BMulLimb(a, d) == Call("BMulLimb", <<a, d>>)

BMulLimbBody(a, d) ==
  LET v == AsSeq([k \in 1..(Len(a) + 1) |->
                    ((Limb(a, k) * d) % LimbBase) + ((Limb(a, k - 1) * d) \div LimbBase)])
  IN  InOrder(<<a, d, v, BNorm(v)>>)

RECURSIVE BMulFrom(_, _, _, _)
\* acc + a * (limbs j.. of b) * LimbBase^(j-1)
BMulFrom(a, b, j, acc) ==
  IF j > Len(b) THEN acc
  ELSE LET p  == Zeros(j - 1) \o BMulLimb(a, b[j])
           s  == BAdd(acc, p)
       IN  InOrder(<<p, s, BMulFrom(a, b, j + 1, s)>>)

BMul(a, b) == Call("BMul", <<a, b>>)

BMulBody(a, b) == InOrder(<<a, b, BMulFrom(a, b, 1, << >>)>>)

\* a * 2^k
BShl(a, k) == Call("BShl", <<a, k>>)

BShlBody(a, k) ==
  LET r == IF BIsZero(a) THEN << >>
           ELSE Zeros(k \div LimbBits) \o BMulLimb(a, 2 ^ (k % LimbBits))
  IN  InOrder(<<a, k, r>>)

\* the number of bits of the limb x
BitLenInt(x) == CHOOSE n \in 0..LimbBits : x < 2 ^ n /\ (n = 0 \/ x >= 2 ^ (n - 1))

BBitLen(a) == Call("BBitLen", <<a>>)

BBitLenBody(a) ==
  LET t == BTrim(a)
      n == IF t = << >> THEN 0 ELSE LimbBits * (Len(t) - 1) + BitLenInt(t[Len(t)])
  IN  InOrder(<<a, t, n>>)

\* floor(a / 2^k)
BShr(a, k) == Call("BShr", <<a, k>>)

BShrBody(a, k) ==
  LET q == k \div LimbBits
      r == k % LimbBits
      v == AsSeq([i \in 1..(Len(a) - q) |->
                    (a[i + q] \div 2 ^ r) + (Limb(a, i + q + 1) % 2 ^ r) * 2 ^ (LimbBits - r)])
  IN  InOrder(<<a, k, v, BTrim(v)>>)

BIsOdd(a) == Len(a) > 0 /\ a[1] % 2 = 1

One == <<1>>

(***************************************************************************)
(* binary64 values and their correctly rounded arithmetic.                 *)
(***************************************************************************)
FZero == [s |-> 0, e |-> 0, m |-> <<0, 0, 0, 0>>]

FOne == [s |-> 0, e |-> 1 - MantBits, m |-> <<0, 0, 0, 2 ^ (MantBits - 1 - 3 * LimbBits)>>]

\* the binary64 value with sign s, exponent e and mantissa limbs l3..l0
D(s, e, l3, l2, l1, l0) == [s |-> s, e |-> e, m |-> <<l0, l1, l2, l3>>]

\* (-1)^s * big * 2^e with big brought to exactly MantBits bits; big has at most
\* MantBits bits or is the power of two a rounding carried into
Normal(s, big, e) == Call("Normal", <<s, big, e>>)

NormalBody(s, big, e) ==
  LET L == BBitLen(big)
      r == IF L = 0 THEN FZero
           ELSE IF L > MantBits
                THEN [s |-> s, e |-> e + (L - MantBits), m |-> BShr(big, L - MantBits)]
           ELSE [s |-> s, e |-> e - (MantBits - L), m |-> BShl(big, MantBits - L)]
  IN  InOrder(<<big, L, r>>)

\* big rounded to its top p bits, L > p bits long, as <<mantissa, bits dropped>>
\* (round to nearest, ties to even)
RoundBits(p, big, L) == Call("RoundBits", <<p, big, L>>)

RoundBitsBody(p, big, L) ==
  LET k    == L - p
      q    == BShr(big, k)
      rem  == BSub(big, BShl(q, k))
      half == BShl(One, k - 1)
      c    == BCmp(rem, half)
      up   == c > 0 \/ (c = 0 /\ BIsOdd(q))
      r    == IF up THEN BAdd(q, One) ELSE q
  IN  InOrder(<<q, rem, half, c, r, <<r, k>> >>)

\* the value with a p-bit mantissa nearest to (-1)^s * big * 2^e
RoundTo(p, s, big, e) == Call("RoundTo", <<p, s, big, e>>)

RoundToBody(p, s, big, e) ==
  LET L == BBitLen(big)
      t == IF L <= p THEN <<big, 0>> ELSE RoundBits(p, big, L)
  IN  InOrder(<<big, L, t, Normal(s, t[1], e + t[2])>>)

\* the binary64 nearest to (-1)^s * big * 2^e
Round(s, big, e) == RoundTo(MantBits, s, big, e)

FIsZero(x) == BIsZero(x.m)

FNeg(x) == IF FIsZero(x) THEN x ELSE [x EXCEPT !.s = 1 - x.s]

\* x * y
FMul(x, y) == Call("FMul", <<x, y>>)

FMulBody(x, y) ==
  LET p == BMul(x.m, y.m)
      r == IF FIsZero(x) \/ FIsZero(y) THEN FZero
           ELSE Round((x.s + y.s) % 2, p, x.e + y.e)
  IN  InOrder(<<x, y, r>>)

\* the exact sum of x and y as a triple <<sign, big, exponent>>
ExactSum(x, y) == Call("ExactSum", <<x, y>>)

ExactSumBody(x, y) ==
  LET e  == IF x.e <= y.e THEN x.e ELSE y.e
      mx == BShl(x.m, x.e - e)
      my == BShl(y.m, y.e - e)
      c  == BCmp(mx, my)
      r  == IF FIsZero(x) THEN <<y.s, y.m, y.e>>
            ELSE IF FIsZero(y) THEN <<x.s, x.m, x.e>>
            ELSE IF x.s = y.s THEN <<x.s, BAdd(mx, my), e>>
            ELSE IF c >= 0 THEN <<x.s, BSub(mx, my), e>>
            ELSE <<y.s, BSub(my, mx), e>>
  IN  InOrder(<<x, y, r>>)

\* x + y
FAdd(x, y) == Call("FAdd", <<x, y>>)

FAddBody(x, y) ==
  LET t == ExactSum(x, y)
  IN  InOrder(<<t, Round(t[1], t[2], t[3])>>)

\* x - y
FSub(x, y) == Call("FSub", <<x, y>>)

FSubBody(x, y) == FAdd(x, FNeg(y))

\* x / 2^k (exact: no value of the model is subnormal)
FDivPow2(x, k) == IF FIsZero(x) THEN x ELSE [x EXCEPT !.e = x.e - k]

\* the binary64 value of the small non-negative integer n
FInt(n) == Round(0, <<n>>, 0)

\* x < y, x <= y, x = y on values (0 and -0 are one value here)
FCmp(x, y) == Call("FCmp", <<x, y>>)

FCmpBody(x, y) ==
  LET t == ExactSum(x, FNeg(y))
  IN  IF BIsZero(t[2]) THEN 0 ELSE IF t[1] = 1 THEN -1 ELSE 1

FLe(x, y) == FCmp(x, y) <= 0

FAbs(x) == [x EXCEPT !.s = 0]

\* the quotient digit floor(r / b) < LimbBase, for b of n limbs with its top bit
\* set: the estimate from the top limbs is at most 2 too large
DivDigit(r, b) == Call("DivDigit", <<r, b>>)

DivDigitBody(r, b) ==
  LET n   == Len(b)
      est == (Limb(r, n + 1) * LimbBase + Limb(r, n)) \div b[n]
      hi  == IF est >= LimbBase THEN LimbBase - 1 ELSE est
  IN  CHOOSE d \in Max2(0, hi - 2)..hi :
        /\ BCmp(BMulLimb(b, d), r) <= 0
        /\ d = hi \/ BCmp(BMulLimb(b, d + 1), r) > 0

RECURSIVE BDivFrom(_, _, _, _, _)
\* long division, limbs i..1 of a still to bring down: <<quotient, remainder>>
BDivFrom(a, b, i, q, r) ==
  IF i = 0 THEN <<BTrim(q), r>>
  ELSE LET r1 == BTrim(<<a[i]>> \o r)
           d  == DivDigit(r1, b)
           r2 == BSub(r1, BMulLimb(b, d))
           q1 == <<d>> \o q
       IN  InOrder(<<r1, d, r2, q1, BDivFrom(a, b, i - 1, q1, r2)>>)

\* <<floor(a / b), 0 iff b divides a>> for b > 0; both are first scaled to
\* set the top bit of the top limb of b
BDivMod(a, b) == Call("BDivMod", <<a, b>>)

BDivModBody(a, b) ==
  LET sh == (LimbBits - (BBitLen(b) % LimbBits)) % LimbBits
      bn == BShl(b, sh)
      an == BShl(a, sh)
      k  == IF Len(an) < Len(bn) THEN Len(an) ELSE Len(bn) - 1
      r  == SubSeq(an, Len(an) - k + 1, Len(an))
  IN  InOrder(<<a, b, sh, bn, an, r, BDivFrom(an, bn, Len(an) - k, << >>, r)>>)

\* x / y, y nonzero: the quotient to MantBits + GuardBits bits and a sticky bit, rounded
FDiv(x, y) == Call("FDiv", <<x, y>>)

FDivBody(x, y) ==
  LET n      == MantBits + GuardBits
      a      == BShl(x.m, n)
      d      == BDivMod(a, y.m)
      sticky == IF BIsZero(d[2]) THEN << >> ELSE One
      q      == BAdd(BShl(d[1], 1), sticky)
      r      == IF FIsZero(x) \/ FIsZero(y) THEN FZero
                ELSE InOrder(<<a, d, q, Round((x.s + y.s) % 2, q, x.e - y.e - n - 1)>>)
  IN  InOrder(<<x, y, r>>)

\* floor(sqrt(v)) for 0 <= v < 2^30: the upper bits of the root, then the lower
IntSqrt(v) ==
  LET half == 2 ^ (LimbBits \div 2)
      h    == CHOOSE h \in 0..((LimbBase \div half) - 1) :
                (h * half) * (h * half) <= v /\ v < ((h + 1) * half) * ((h + 1) * half)
  IN  CHOOSE d \in (h * half)..(h * half + half - 1) : d * d <= v /\ v < (d + 1) * (d + 1)

RECURSIVE SqrtFrom(_, _)
\* Newton's iteration downwards from s >= sqrt(big): floor(sqrt(big))
SqrtFrom(big, s) ==
  LET d  == BDivMod(big, s)
      t  == BAdd(s, d[1])
      s1 == BShr(t, 1)
      c  == BCmp(s1, s)
  IN  InOrder(<<d, t, s1, c, IF c >= 0 THEN s ELSE SqrtFrom(big, s1)>>)

\* floor(sqrt(big)) for big > 0, started above the root of the top two limbs
BSqrt(big) == Call("BSqrt", <<big>>)

BSqrtBody(big) ==
  LET L   == Len(big)
      k   == (L - 1) \div 2
      top == IF L % 2 = 0 THEN big[L] * LimbBase + big[L - 1] ELSE big[L]
      s0  == BNorm(Zeros(k) \o <<IntSqrt(top) + 1>>)
  IN  InOrder(<<big, s0, SqrtFrom(big, s0)>>)

\* Math.sqrt(x), x >= 0: the integer root of the mantissa shifted to an even
\* exponent and to eight limbs, with a sticky bit, rounded
FSqrt(x) == Call("FSqrt", <<x>>)

FSqrtBody(x) ==
  LET base   == 8 * LimbBits - MantBits - 1
      sh     == base + ((x.e + base) % 2)
      big    == BShl(x.m, sh)
      s      == BSqrt(big)
      sq     == BMul(s, s)
      sticky == IF BCmp(sq, big) = 0 THEN << >> ELSE One
      q      == BAdd(BShl(s, 1), sticky)
      r      == IF FIsZero(x) THEN FZero
                ELSE InOrder(<<big, s, sq, q, Round(0, q, ((x.e - sh) \div 2) - 1)>>)
  IN  InOrder(<<x, r>>)

\* Math.fround(x): the binary32 nearest to x, as stored into a Float32Array
\* (every value of the model lies in the normal range of binary32).  The low
\* MantBits - Float32Bits bits of the mantissa are dropped: all of limb 1 and
\* the low bits of limb 2; round to nearest, ties to even.
Fround(x) ==
  LET cut  == 2 ^ (MantBits - Float32Bits - LimbBits)
      low  == (x.m[2] % cut) * LimbBase + x.m[1]
      half == (cut * LimbBase) \div 2
      q    == (x.m[4] * LimbBase + x.m[3]) * (LimbBase \div cut) + (x.m[2] \div cut)
      up   == low > half \/ (low = half /\ q % 2 = 1)
      r    == IF up THEN q + 1 ELSE q
      c    == IF r = 2 ^ Float32Bits THEN 1 ELSE 0
      n    == r \div (2 ^ c)
  IN  IF FIsZero(x) THEN x
      ELSE [ s |-> x.s, e |-> x.e + c,
             m |-> << 0, (n % (LimbBase \div cut)) * cut,
                      (n \div (LimbBase \div cut)) % LimbBase,
                      n \div ((LimbBase \div cut) * LimbBase) >> ]

\* a row is <<x, cos x and sin x by fdlibm, cos x and sin x by glibc>>, each number
\* written as the arguments <<s, e, l3, l2, l1, l0>> of D
TrigRows == <<
  <<<<1,-52,128,0,0,0>>, <<0,-53,138,10400,8042,1676>>, <<1,-53,215,13650,7698,3310>>, <<0,-53,138,10400,8042,1676>>, <<1,-53,215,13650,7698,3310>>>>,
  <<<<1,-53,215,25808,17585,17352>>, <<0,-53,170,10258,650,9285>>, <<1,-53,191,4155,31299,19815>>, <<0,-53,170,10258,650,9285>>, <<1,-53,191,4155,31299,19814>>>>,
  <<<<1,-53,175,18849,2403,1936>>, <<0,-53,198,3769,17463,17239>>, <<1,-53,162,4289,22022,28566>>, <<0,-53,198,3769,17463,17239>>, <<1,-53,162,4289,22022,28566>>>>,
  <<<<1,-53,135,11889,19988,19288>>, <<0,-53,221,1270,18327,7476>>, <<1,-53,129,4678,30915,26186>>, <<0,-53,221,1270,18327,7476>>, <<1,-53,129,4678,30915,26186>>>>,
  <<<<1,-54,190,9860,9612,7744>>, <<0,-53,238,17032,30244,24691>>, <<1,-54,185,31112,30294,24951>>, <<0,-53,238,17032,30244,24691>>, <<1,-54,185,31112,30294,24951>>>>,
  <<<<1,-55,219,24650,24030,19360>>, <<0,-53,250,4183,30632,24481>>, <<1,-55,218,2274,21636,12943>>, <<0,-53,250,4183,30632,24481>>, <<1,-55,218,2274,21636,12943>>>>,
  <<<<1,-57,235,20019,17042,27392>>, <<0,-53,255,18893,22827,2665>>, <<1,-57,235,15762,20356,3191>>, <<0,-53,255,18893,22827,2665>>, <<1,-57,235,15762,20356,3191>>>>,
  <<<<0,0,0,0,0,0>>, <<0,-52,128,0,0,0>>, <<0,0,0,0,0,0>>, <<0,-52,128,0,0,0>>, <<0,0,0,0,0,0>>>>,
  <<<<0,-61,157,9384,24746,12897>>, <<0,-53,255,32743,27552,262>>, <<0,-61,157,9379,26456,27974>>, <<0,-53,255,32743,27552,262>>, <<0,-61,157,9379,26456,27974>>>>,
  <<<<0,-59,131,2359,9699,10748>>, <<0,-53,255,32499,18545,29170>>, <<0,-59,131,2313,15832,8390>>, <<0,-53,255,32499,18545,29170>>, <<0,-59,131,2313,15832,8390>>>>,
  <<<<0,-58,131,2359,9699,10748>>, <<0,-53,255,31694,9210,16538>>, <<0,-58,131,2176,1520,22473>>, <<0,-53,255,31694,9210,16538>>, <<0,-58,131,2176,1520,22473>>>>,
  <<<<0,-56,203,29281,31018,11328>>, <<0,-53,254,23997,23614,17756>>, <<0,-56,203,18250,14758,22833>>, <<0,-53,254,23997,23614,17756>>, <<0,-56,203,18250,14758,22833>>>>,
  <<<<0,-55,153,19660,26214,13107>>, <<0,-53,253,4108,31933,26935>>, <<0,-55,153,807,21439,27938>>, <<0,-53,253,4108,31933,26935>>, <<0,-55,153,807,21439,27938>>>>,
  <<<<0,-55,160,27837,27961,28896>>, <<0,-53,252,27794,10335,25692>>, <<0,-55,160,6189,20304,21365>>, <<0,-53,252,27794,10335,25692>>, <<0,-55,160,6189,20304,21365>>>>,
  <<<<0,-54,131,13047,13543,17280>>, <<0,-53,247,20177,6089,10423>>, <<0,-54,129,31475,7142,10817>>, <<0,-53,247,20177,6089,10423>>, <<0,-54,129,31475,7142,10817>>>>,
  <<<<0,-54,160,27837,27961,28896>>, <<0,-53,243,15416,9864,21759>>, <<0,-54,158,7100,28255,26959>>, <<0,-53,243,15416,9864,21759>>, <<0,-54,158,7100,28255,26959>>>>,
  <<<<0,-54,192,0,0,0>>, <<0,-53,238,6879,22322,22802>>, <<0,-54,187,17417,10988,16916>>, <<0,-53,238,6879,22322,22802>>, <<0,-54,187,17417,10988,16916>>>>,
  <<<<0,-54,211,26966,11140,15344>>, <<0,-53,234,13174,5399,3276>>, <<0,-54,205,27256,8438,12597>>, <<0,-53,234,13174,5399,3276>>, <<0,-54,205,27256,8438,12597>>>>,
  <<<<0,-54,241,8988,25558,26960>>, <<0,-53,228,3200,14970,11373>>, <<0,-54,232,14520,22153,24064>>, <<0,-53,228,3200,14970,11373>>, <<0,-54,232,14520,22153,24064>>>>,
  <<<<0,-53,128,0,0,0>>, <<0,-53,224,21664,3254,32080>>, <<0,-54,245,15265,26774,1520>>, <<0,-53,224,21664,3254,32080>>, <<0,-54,245,15265,26774,1520>>>>,
  <<<<0,-53,146,4058,20752,23088>>, <<0,-53,215,13650,7698,3310>>, <<0,-53,138,10400,8042,1675>>, <<0,-53,215,13650,7698,3310>>, <<0,-53,138,10400,8042,1675>>>>,
  <<<<0,-53,160,27837,27961,28896>>, <<0,-53,207,3550,14127,29864>>, <<0,-53,150,15500,2282,23134>>, <<0,-53,207,3550,14127,29864>>, <<0,-53,150,15500,2282,23134>>>>,
  <<<<0,-53,186,11018,3167,5736>>, <<0,-53,191,4155,31299,19815>>, <<0,-53,170,10258,650,9285>>, <<0,-53,191,4155,31299,19815>>, <<0,-53,170,10258,650,9285>>>>,
  <<<<0,-53,201,2029,10376,11544>>, <<0,-53,181,633,19710,15309>>, <<0,-53,181,633,19710,15308>>, <<0,-53,181,633,19710,15309>>, <<0,-53,181,633,19710,15308>>>>,
  <<<<0,-53,226,17977,18349,21152>>, <<0,-53,162,4289,22022,28567>>, <<0,-53,198,3769,17463,17238>>, <<0,-53,162,4289,22022,28567>>, <<0,-53,198,3769,17463,17238>>>>,
  <<<<0,-53,241,8988,25558,26960>>, <<0,-53,150,15500,2282,23134>>, <<0,-53,207,3550,14127,29864>>, <<0,-53,150,15500,2282,23134>>, <<0,-53,207,3550,14127,29864>>>>,
  <<<<0,-52,128,0,0,0>>, <<0,-53,138,10400,8042,1676>>, <<0,-53,215,13650,7698,3310>>, <<0,-53,138,10400,8042,1676>>, <<0,-53,215,13650,7698,3310>>>>,
  <<<<0,-52,133,12468,16766,1900>>, <<0,-53,129,4678,30915,26186>>, <<0,-53,221,1270,18327,7475>>, <<0,-53,129,4678,30915,26186>>, <<0,-53,221,1270,18327,7476>>>>,
  <<<<0,-52,140,24358,3986,21188>>, <<0,-54,232,14520,22153,24066>>, <<0,-53,228,3200,14970,11372>>, <<0,-54,232,14520,22153,24065>>, <<0,-53,228,3200,14970,11372>>>>,
  <<<<0,-52,153,15948,7973,9608>>, <<0,-54,185,31112,30294,24952>>, <<0,-53,238,17032,30244,24691>>, <<0,-54,185,31112,30294,24952>>, <<0,-53,238,17032,30244,24691>>>>,
  <<<<0,-52,160,0,0,0>>, <<0,-54,161,14583,12567,22866>>, <<0,-53,242,30803,31778,16780>>, <<0,-54,161,14583,12567,22866>>, <<0,-53,242,30803,31778,16780>>>>,
  <<<<0,-52,160,27837,27961,28896>>, <<0,-54,158,7100,28255,26960>>, <<0,-53,243,15416,9864,21759>>, <<0,-54,158,7100,28255,26960>>, <<0,-53,243,15416,9864,21759>>>>,
  <<<<0,-52,173,19427,31948,17316>>, <<0,-55,218,2274,21636,12945>>, <<0,-53,250,4183,30632,24481>>, <<0,-55,218,2274,21636,12945>>, <<0,-53,250,4183,30632,24481>>>>,
  <<<<0,-52,180,31317,19169,3836>>, <<0,-55,160,6189,20304,21367>>, <<0,-53,252,27794,10335,25692>>, <<0,-55,160,6189,20304,21367>>, <<0,-53,252,27794,10335,25692>>>>,
  <<<<0,-52,192,0,0,0>>, <<0,-56,144,28501,8075,31143>>, <<0,-53,255,11754,13912,28043>>, <<0,-56,144,28501,8075,31143>>, <<0,-53,255,11754,13912,28043>>>>,
  <<<<0,-52,193,22907,23155,25024>>, <<0,-57,235,15762,20356,3200>>, <<0,-53,255,18893,22827,2665>>, <<0,-57,235,15762,20356,3200>>, <<0,-53,255,18893,22827,2665>>>>,
  <<<<0,-52,201,2029,10376,11544>>, <<0,-106,141,6296,26152,23559>>, <<0,-52,128,0,0,0>>, <<0,-106,141,6296,26152,23559>>, <<0,-52,128,0,0,0>>>>,
  <<<<0,-52,213,26387,14362,32732>>, <<1,-56,203,18250,14758,22829>>, <<0,-53,254,23997,23614,17756>>, <<1,-56,203,18250,14758,22829>>, <<0,-53,254,23997,23614,17756>>>>,
  <<<<0,-52,221,5509,1583,19252>>, <<1,-55,160,6189,20304,21363>>, <<0,-53,252,27794,10335,25692>>, <<1,-55,160,6189,20304,21363>>, <<0,-53,252,27794,10335,25692>>>>,
  <<<<0,-52,233,29867,5570,7672>>, <<1,-54,129,31475,7142,10816>>, <<0,-53,247,20177,6089,10423>>, <<1,-54,129,31475,7142,10816>>, <<0,-53,247,20177,6089,10423>>>>,
  <<<<0,-52,241,8988,25558,26960>>, <<1,-54,158,7100,28255,26958>>, <<0,-53,243,15416,9864,21760>>, <<1,-54,158,7100,28255,26958>>, <<0,-53,243,15416,9864,21760>>>>,
  <<<<0,-52,254,578,29545,15380>>, <<1,-54,205,27256,8438,12596>>, <<0,-53,234,13174,5399,3276>>, <<1,-54,205,27256,8438,12596>>, <<0,-53,234,13174,5399,3276>>>>,
  <<<<0,-51,130,22618,8383,950>>, <<1,-54,232,14520,22153,24064>>, <<0,-53,228,3200,14970,11373>>, <<1,-54,232,14520,22153,24063>>, <<0,-53,228,3200,14970,11373>>>>,
  <<<<0,-51,137,2029,10376,11544>>, <<1,-53,138,10400,8042,1675>>, <<0,-53,215,13650,7698,3311>>, <<1,-53,138,10400,8042,1675>>, <<0,-53,215,13650,7698,3311>>>>,
  <<<<0,-51,140,24358,3986,21188>>, <<1,-53,150,15500,2282,23133>>, <<0,-53,207,3550,14127,29864>>, <<1,-53,150,15500,2282,23133>>, <<0,-53,207,3550,14127,29864>>>>,
  <<<<0,-51,147,3769,5979,31782>>, <<1,-53,170,10258,650,9284>>, <<0,-53,191,4155,31299,19815>>, <<1,-53,170,10258,650,9284>>, <<0,-53,191,4155,31299,19815>>>>,
  <<<<0,-51,150,26097,32358,8658>>, <<1,-53,181,633,19710,15308>>, <<0,-53,181,633,19710,15309>>, <<1,-53,181,633,19710,15308>>, <<0,-53,181,633,19710,15309>>>>,
  <<<<0,-51,157,5509,1583,19252>>, <<1,-53,198,3769,17463,17238>>, <<0,-53,162,4289,22022,28567>>, <<1,-53,198,3769,17463,17238>>, <<0,-53,162,4289,22022,28567>>>>,
  <<<<0,-51,160,0,0,0>>, <<1,-53,205,3039,24331,2941>>, <<0,-53,153,6844,7071,19120>>, <<1,-53,205,3039,24331,2941>>, <<0,-53,153,6844,7071,19121>>>>,
  <<<<0,-51,160,27837,27961,28896>>, <<1,-53,207,3550,14127,29863>>, <<0,-53,150,15500,2282,23135>>, <<1,-53,207,3550,14127,29863>>, <<0,-53,150,15500,2282,23135>>>>,
  <<<<0,-51,167,7248,29955,6722>>, <<1,-53,221,1270,18327,7475>>, <<0,-53,129,4678,30915,26187>>, <<1,-53,221,1270,18327,7475>>, <<0,-53,129,4678,30915,26187>>>>,
  <<<<0,-51,170,29577,23565,16366>>, <<1,-53,228,3200,14970,11372>>, <<0,-54,232,14520,22153,24066>>, <<1,-53,228,3200,14970,11372>>, <<0,-54,232,14520,22153,24066>>>>,
  <<<<0,-51,177,8988,25558,26960>>, <<1,-53,238,17032,30244,24690>>, <<0,-54,185,31112,30294,24953>>, <<1,-53,238,17032,30244,24690>>, <<0,-54,185,31112,30294,24953>>>>,
  <<<<0,-51,180,31317,19169,3836>>, <<1,-53,243,15416,9864,21759>>, <<0,-54,158,7100,28255,26961>>, <<1,-53,243,15416,9864,21759>>, <<0,-54,158,7100,28255,26961>>>>,
  <<<<0,-51,187,10728,21162,14430>>, <<1,-53,250,4183,30632,24481>>, <<0,-55,218,2274,21636,12947>>, <<1,-53,250,4183,30632,24481>>, <<0,-55,218,2274,21636,12947>>>>,
  <<<<0,-51,191,289,14772,24074>>, <<1,-53,252,27794,10335,25691>>, <<0,-55,160,6189,20304,21369>>, <<1,-53,252,27794,10335,25691>>, <<0,-55,160,6189,20304,21369>>>>,
  <<<<0,-51,197,12468,16766,1900>>, <<1,-53,255,18893,22827,2664>>, <<0,-57,235,15762,20356,3209>>, <<1,-53,255,18893,22827,2664>>, <<0,-57,235,15762,20356,3209>>>>,
  <<<<0,-51,201,2029,10376,11544>>, <<1,-52,128,0,0,0>>, <<0,-105,141,6296,26152,23559>>, <<1,-52,128,0,0,0>>, <<0,-105,141,6296,26152,23559>>>>,
  <<<<0,-51,207,14208,12369,22138>>, <<1,-53,254,23997,23614,17756>>, <<1,-56,203,18250,14758,22824>>, <<1,-53,254,23997,23614,17756>>, <<1,-56,203,18250,14758,22824>>>>,
  <<<<0,-51,211,3769,5979,31782>>, <<1,-53,252,27794,10335,25692>>, <<1,-55,160,6189,20304,21360>>, <<1,-53,252,27794,10335,25692>>, <<1,-55,160,6189,20304,21360>>>>,
  <<<<0,-51,217,15948,7973,9608>>, <<1,-53,247,20177,6089,10423>>, <<1,-54,129,31475,7142,10815>>, <<1,-53,247,20177,6089,10423>>, <<1,-54,129,31475,7142,10815>>>>,
  <<<<0,-51,221,5509,1583,19252>>, <<1,-53,243,15416,9864,21760>>, <<1,-54,158,7100,28255,26957>>, <<1,-53,243,15416,9864,21760>>, <<1,-54,158,7100,28255,26957>>>>,
  <<<<0,-51,227,17688,3576,29846>>, <<1,-53,234,13174,5399,3277>>, <<1,-54,205,27256,8438,12595>>, <<1,-53,234,13174,5399,3277>>, <<1,-54,205,27256,8438,12595>>>>,
  <<<<0,-51,231,7248,29955,6722>>, <<1,-53,228,3200,14970,11373>>, <<1,-54,232,14520,22153,24063>>, <<1,-53,228,3200,14970,11373>>, <<1,-54,232,14520,22153,24063>>>>,
  <<<<0,-51,237,19427,31948,17316>>, <<1,-53,215,13650,7698,3311>>, <<1,-53,138,10400,8042,1674>>, <<1,-53,215,13650,7698,3311>>, <<1,-53,138,10400,8042,1674>>>>,
  <<<<0,-51,241,8988,25558,26960>>, <<1,-53,207,3550,14127,29864>>, <<1,-53,150,15500,2282,23133>>, <<1,-53,207,3550,14127,29865>>, <<1,-53,150,15500,2282,23133>>>>,
  <<<<0,-51,247,21167,27552,4786>>, <<1,-53,191,4155,31299,19816>>, <<1,-53,170,10258,650,9284>>, <<1,-53,191,4155,31299,19816>>, <<1,-53,170,10258,650,9284>>>>,
  <<<<0,-51,251,10728,21162,14430>>, <<1,-53,181,633,19710,15310>>, <<1,-53,181,633,19710,15308>>, <<1,-53,181,633,19710,15310>>, <<1,-53,181,633,19710,15308>>>>,
  <<<<0,-50,128,27837,27961,28896>>, <<1,-53,162,4289,22022,28568>>, <<1,-53,198,3769,17463,17238>>, <<1,-53,162,4289,22022,28568>>, <<1,-53,198,3769,17463,17238>>>>,
  <<<<0,-50,130,22618,8383,950>>, <<1,-53,150,15500,2282,23135>>, <<1,-53,207,3550,14127,29863>>, <<1,-53,150,15500,2282,23135>>, <<1,-53,207,3550,14127,29863>>>>,
  <<<<0,-50,133,28707,25763,22631>>, <<1,-53,129,4678,30915,26187>>, <<1,-53,221,1270,18327,7475>>, <<1,-53,129,4678,30915,26187>>, <<1,-53,221,1270,18327,7475>>>>,
  <<<<0,-50,135,23488,6184,27453>>, <<1,-54,232,14520,22153,24067>>, <<1,-53,228,3200,14970,11372>>, <<1,-54,232,14520,22153,24067>>, <<1,-53,228,3200,14970,11372>>>>,
  <<<<0,-50,138,29577,23565,16366>>, <<1,-54,185,31112,30294,24954>>, <<1,-53,238,17032,30244,24690>>, <<1,-54,185,31112,30294,24954>>, <<1,-53,238,17032,30244,24690>>>>,
  <<<<0,-50,140,24358,3986,21188>>, <<1,-54,158,7100,28255,26962>>, <<1,-53,243,15416,9864,21759>>, <<1,-54,158,7100,28255,26962>>, <<1,-53,243,15416,9864,21759>>>>,
  <<<<0,-50,143,30447,21367,10101>>, <<1,-55,218,2274,21636,12949>>, <<1,-53,250,4183,30632,24481>>, <<1,-55,218,2274,21636,12949>>, <<1,-53,250,4183,30632,24481>>>>,
  <<<<0,-50,145,25228,1788,14923>>, <<1,-55,160,6189,20304,21371>>, <<1,-53,252,27794,10335,25691>>, <<1,-55,160,6189,20304,21371>>, <<1,-53,252,27794,10335,25691>>>>,
  <<<<0,-50,148,31317,19169,3836>>, <<1,-57,235,15762,20356,3218>>, <<1,-53,255,18893,22827,2664>>, <<1,-57,235,15762,20356,3218>>, <<1,-53,255,18893,22827,2664>>>>,
  <<<<0,-50,150,26097,32358,8658>>, <<1,-105,211,25829,6461,2570>>, <<1,-52,128,0,0,0>>, <<1,-105,211,25829,6461,2570>>, <<1,-52,128,0,0,0>>>>,
  <<<<0,-50,153,32187,16970,30339>>, <<0,-56,203,18250,14758,22820>>, <<1,-53,254,23997,23614,17756>>, <<0,-56,203,18250,14758,22820>>, <<1,-53,254,23997,23614,17756>>>>,
  <<<<0,-50,155,26967,30160,2393>>, <<0,-55,160,6189,20304,21358>>, <<1,-53,252,27794,10335,25692>>, <<0,-55,160,6189,20304,21358>>, <<1,-53,252,27794,10335,25692>>>>,
  <<<<0,-50,159,289,14772,24074>>, <<0,-54,129,31475,7142,10814>>, <<1,-53,247,20177,6089,10423>>, <<0,-54,129,31475,7142,10814>>, <<1,-53,247,20177,6089,10423>>>>,
  <<<<0,-50,160,0,0,0>>, <<0,-54,145,7701,24790,19161>>, <<1,-53,245,15879,27585,6451>>, <<0,-54,145,7701,24790,19161>>, <<1,-53,245,15879,27585,6451>>>>,
  <<<<0,-50,160,27837,27961,28896>>, <<0,-54,158,7100,28255,26956>>, <<1,-53,243,15416,9864,21760>>, <<0,-54,158,7100,28255,26956>>, <<1,-53,243,15416,9864,21760>>>>,
  <<<<0,-50,164,1159,12574,17809>>, <<0,-54,205,27256,8438,12594>>, <<1,-53,234,13174,5399,3277>>, <<0,-54,205,27256,8438,12594>>, <<1,-53,234,13174,5399,3277>>>>,
  <<<<0,-50,165,28707,25763,22631>>, <<0,-54,232,14520,22153,24062>>, <<1,-53,228,3200,14970,11374>>, <<0,-54,232,14520,22153,24062>>, <<1,-53,228,3200,14970,11374>>>>,
  <<<<0,-50,169,2029,10376,11544>>, <<0,-53,138,10400,8042,1674>>, <<1,-53,215,13650,7698,3311>>, <<0,-53,138,10400,8042,1674>>, <<1,-53,215,13650,7698,3311>>>>,
  <<<<0,-50,170,29577,23565,16366>>, <<0,-53,150,15500,2282,23132>>, <<1,-53,207,3550,14127,29865>>, <<0,-53,150,15500,2282,23132>>, <<1,-53,207,3550,14127,29865>>>>,
  <<<<0,-50,174,2899,8178,5279>>, <<0,-53,170,10258,650,9283>>, <<1,-53,191,4155,31299,19816>>, <<0,-53,170,10258,650,9283>>, <<1,-53,191,4155,31299,19816>>>>,
  <<<<0,-50,175,30447,21367,10101>>, <<0,-53,181,633,19710,15307>>, <<1,-53,181,633,19710,15310>>, <<0,-53,181,633,19710,15307>>, <<1,-53,181,633,19710,15310>>>>,
  <<<<0,-50,179,3769,5979,31782>>, <<0,-53,198,3769,17463,17237>>, <<1,-53,162,4289,22022,28568>>, <<0,-53,198,3769,17463,17237>>, <<1,-53,162,4289,22022,28568>>>>,
  <<<<0,-50,180,31317,19169,3836>>, <<0,-53,207,3550,14127,29863>>, <<1,-53,150,15500,2282,23136>>, <<0,-53,207,3550,14127,29863>>, <<1,-53,150,15500,2282,23136>>>>,
  <<<<0,-50,184,4639,3781,25517>>, <<0,-53,221,1270,18327,7475>>, <<1,-53,129,4678,30915,26188>>, <<0,-53,221,1270,18327,7475>>, <<1,-53,129,4678,30915,26188>>>>,
  <<<<0,-50,185,32187,16970,30339>>, <<0,-53,228,3200,14970,11372>>, <<1,-54,232,14520,22153,24068>>, <<0,-53,228,3200,14970,11372>>, <<1,-54,232,14520,22153,24068>>>>,
  <<<<0,-50,189,5509,1583,19252>>, <<0,-53,238,17032,30244,24690>>, <<1,-54,185,31112,30294,24955>>, <<0,-53,238,17032,30244,24690>>, <<1,-54,185,31112,30294,24955>>>>,
  <<<<0,-50,191,289,14772,24074>>, <<0,-53,243,15416,9864,21759>>, <<1,-54,158,7100,28255,26963>>, <<0,-53,243,15416,9864,21759>>, <<1,-54,158,7100,28255,26963>>>>,
  <<<<0,-50,194,6378,32153,12987>>, <<0,-53,250,4183,30632,24480>>, <<1,-55,218,2274,21636,12951>>, <<0,-53,250,4183,30632,24480>>, <<1,-55,218,2274,21636,12951>>>>,
  <<<<0,-50,196,1159,12574,17809>>, <<0,-53,252,27794,10335,25691>>, <<1,-55,160,6189,20304,21374>>, <<0,-53,252,27794,10335,25691>>, <<1,-55,160,6189,20304,21374>>>>,
  <<<<0,-50,199,7248,29955,6722>>, <<0,-53,255,18893,22827,2664>>, <<1,-57,235,15762,20356,3227>>, <<0,-53,255,18893,22827,2664>>, <<1,-57,235,15762,20356,3227>>>>,
  <<<<0,-50,201,2029,10376,11544>>, <<0,-52,128,0,0,0>>, <<1,-104,141,6296,26152,23559>>, <<0,-52,128,0,0,0>>, <<1,-104,141,6296,26152,23559>>>>,
  <<<<0,-50,204,8118,27757,457>>, <<0,-53,254,23997,23614,17756>>, <<0,-56,203,18250,14758,22816>>, <<0,-53,254,23997,23614,17756>>, <<0,-56,203,18250,14758,22816>>>>,
  <<<<0,-50,206,2899,8178,5279>>, <<0,-53,252,27794,10335,25692>>, <<0,-55,160,6189,20304,21356>>, <<0,-53,252,27794,10335,25692>>, <<0,-55,160,6189,20304,21356>>>>,
  <<<<0,-50,209,8988,25558,26960>>, <<0,-53,247,20177,6089,10423>>, <<0,-54,129,31475,7142,10813>>, <<0,-53,247,20177,6089,10423>>, <<0,-54,129,31475,7142,10813>>>>,
  <<<<0,-50,211,3769,5979,31782>>, <<0,-53,243,15416,9864,21760>>, <<0,-54,158,7100,28255,26955>>, <<0,-53,243,15416,9864,21760>>, <<0,-54,158,7100,28255,26955>>>>,
  <<<<0,-50,214,9858,23360,20695>>, <<0,-53,234,13174,5399,3277>>, <<0,-54,205,27256,8438,12593>>, <<0,-53,234,13174,5399,3277>>, <<0,-54,205,27256,8438,12593>>>>,
  <<<<0,-50,216,4639,3781,25517>>, <<0,-53,228,3200,14970,11374>>, <<0,-54,232,14520,22153,24061>>, <<0,-53,228,3200,14970,11374>>, <<0,-54,232,14520,22153,24061>>>>,
  <<<<0,-50,219,10728,21162,14430>>, <<0,-53,215,13650,7698,3311>>, <<0,-53,138,10400,8042,1673>>, <<0,-53,215,13650,7698,3312>>, <<0,-53,138,10400,8042,1673>>>>,
  <<<<0,-50,221,5509,1583,19252>>, <<0,-53,207,3550,14127,29865>>, <<0,-53,150,15500,2282,23132>>, <<0,-53,207,3550,14127,29865>>, <<0,-53,150,15500,2282,23132>>>>,
  <<<<0,-50,224,11598,18964,8164>>, <<0,-53,191,4155,31299,19822>>, <<0,-53,170,10258,650,9277>>, <<0,-53,191,4155,31299,19822>>, <<0,-53,170,10258,650,9277>>>>,
  <<<<0,-50,226,6378,32153,12987>>, <<0,-53,181,633,19710,15310>>, <<0,-53,181,633,19710,15307>>, <<0,-53,181,633,19710,15310>>, <<0,-53,181,633,19710,15307>>>>,
  <<<<0,-50,229,12468,16766,1900>>, <<0,-53,162,4289,22022,28569>>, <<0,-53,198,3769,17463,17237>>, <<0,-53,162,4289,22022,28569>>, <<0,-53,198,3769,17463,17237>>>>,
  <<<<0,-50,231,7248,29955,6722>>, <<0,-53,150,15500,2282,23136>>, <<0,-53,207,3550,14127,29862>>, <<0,-53,150,15500,2282,23136>>, <<0,-53,207,3550,14127,29862>>>>,
  <<<<0,-50,234,13338,14567,28404>>, <<0,-53,129,4678,30915,26181>>, <<0,-53,221,1270,18327,7478>>, <<0,-53,129,4678,30915,26181>>, <<0,-53,221,1270,18327,7478>>>>,
  <<<<0,-50,236,8118,27757,457>>, <<0,-54,232,14520,22153,24069>>, <<0,-53,228,3200,14970,11372>>, <<0,-54,232,14520,22153,24069>>, <<0,-53,228,3200,14970,11371>>>>,
  <<<<0,-50,239,14208,12369,22138>>, <<0,-54,185,31112,30294,24956>>, <<0,-53,238,17032,30244,24690>>, <<0,-54,185,31112,30294,24956>>, <<0,-53,238,17032,30244,24690>>>>,
  <<<<0,-50,241,8988,25558,26960>>, <<0,-54,158,7100,28255,26965>>, <<0,-53,243,15416,9864,21759>>, <<0,-54,158,7100,28255,26965>>, <<0,-53,243,15416,9864,21759>>>>,
  <<<<0,-50,244,15078,10171,15872>>, <<0,-55,218,2274,21636,12985>>, <<0,-53,250,4183,30632,24479>>, <<0,-55,218,2274,21636,12985>>, <<0,-53,250,4183,30632,24479>>>>,
  <<<<0,-50,246,9858,23360,20695>>, <<0,-55,160,6189,20304,21376>>, <<0,-53,252,27794,10335,25691>>, <<0,-55,160,6189,20304,21376>>, <<0,-53,252,27794,10335,25691>>>>,
  <<<<0,-50,249,15948,7973,9608>>, <<0,-57,235,15762,20356,3236>>, <<0,-53,255,18893,22827,2664>>, <<0,-57,235,15762,20356,3236>>, <<0,-53,255,18893,22827,2664>>>>,
  <<<<0,-50,251,10728,21162,14430>>, <<0,-104,176,16062,32690,29449>>, <<0,-52,128,0,0,0>>, <<0,-104,176,16062,32690,29449>>, <<0,-52,128,0,0,0>>>>,
  <<<<0,-50,254,16818,5775,3344>>, <<1,-56,203,18250,14758,22875>>, <<0,-53,254,23997,23614,17756>>, <<1,-56,203,18250,14758,22875>>, <<0,-53,254,23997,23614,17756>>>>,
  <<<<0,-49,128,5799,9482,4082>>, <<1,-55,160,6189,20304,21322>>, <<0,-53,252,27794,10335,25693>>, <<1,-55,160,6189,20304,21322>>, <<0,-53,252,27794,10335,25693>>>>,
  <<<<0,-49,129,25228,1788,14923>>, <<1,-54,129,31475,7142,10812>>, <<0,-53,247,20177,6089,10423>>, <<1,-54,129,31475,7142,10812>>, <<0,-53,247,20177,6089,10423>>>>,
  <<<<0,-49,130,22618,8383,950>>, <<1,-54,158,7100,28255,26954>>, <<0,-53,243,15416,9864,21760>>, <<1,-54,158,7100,28255,26954>>, <<0,-53,243,15416,9864,21760>>>>,
  <<<<0,-49,132,9279,689,11790>>, <<1,-54,205,27256,8438,12577>>, <<0,-53,234,13174,5399,3281>>, <<1,-54,205,27256,8438,12577>>, <<0,-53,234,13174,5399,3280>>>>,
  <<<<0,-49,133,6669,7283,30586>>, <<1,-54,232,14520,22153,24074>>, <<0,-53,228,3200,14970,11370>>, <<1,-54,232,14520,22153,24074>>, <<0,-53,228,3200,14970,11370>>>>,
  <<<<0,-49,134,26097,32358,8658>>, <<1,-53,138,10400,8042,1673>>, <<0,-53,215,13650,7698,3312>>, <<1,-53,138,10400,8042,1673>>, <<0,-53,215,13650,7698,3312>>>>,
  <<<<0,-49,135,23488,6184,27453>>, <<1,-53,150,15500,2282,23132>>, <<0,-53,207,3550,14127,29865>>, <<1,-53,150,15500,2282,23132>>, <<0,-53,207,3550,14127,29866>>>>,
  <<<<0,-49,137,10148,31259,5526>>, <<1,-53,170,10258,650,9289>>, <<0,-53,191,4155,31299,19811>>, <<1,-53,170,10258,650,9289>>, <<0,-53,191,4155,31299,19811>>>>,
  <<<<0,-49,138,7539,5085,24320>>, <<1,-53,181,633,19710,15301>>, <<0,-53,181,633,19710,15316>>, <<1,-53,181,633,19710,15301>>, <<0,-53,181,633,19710,15316>>>>,
  <<<<0,-49,139,26967,30160,2393>>, <<1,-53,198,3769,17463,17237>>, <<0,-53,162,4289,22022,28569>>, <<1,-53,198,3769,17463,17237>>, <<0,-53,162,4289,22022,28569>>>>,
  <<<<0,-49,140,24358,3986,21188>>, <<1,-53,207,3550,14127,29862>>, <<0,-53,150,15500,2282,23136>>, <<1,-53,207,3550,14127,29862>>, <<0,-53,150,15500,2282,23136>>>>,
  <<<<0,-49,142,11018,29060,32028>>, <<1,-53,221,1270,18327,7470>>, <<0,-53,129,4678,30915,26195>>, <<1,-53,221,1270,18327,7470>>, <<0,-53,129,4678,30915,26195>>>>,
  <<<<0,-49,143,8409,2887,18056>>, <<1,-53,228,3200,14970,11375>>, <<0,-54,232,14520,22153,24056>>, <<1,-53,228,3200,14970,11375>>, <<0,-54,232,14520,22153,24056>>>>,
  <<<<0,-49,144,27837,27961,28896>>, <<1,-53,238,17032,30244,24690>>, <<0,-54,185,31112,30294,24957>>, <<1,-53,238,17032,30244,24690>>, <<0,-54,185,31112,30294,24957>>>>,
  <<<<0,-49,145,25228,1788,14923>>, <<1,-53,243,15416,9864,21758>>, <<0,-54,158,7100,28255,26966>>, <<1,-53,243,15416,9864,21758>>, <<0,-54,158,7100,28255,26966>>>>,
  <<<<0,-49,147,11888,26862,25764>>, <<1,-53,250,4183,30632,24482>>, <<0,-55,218,2274,21636,12924>>, <<1,-53,250,4183,30632,24482>>, <<0,-55,218,2274,21636,12924>>>>,
  <<<<0,-49,148,9279,689,11790>>, <<1,-53,252,27794,10335,25690>>, <<0,-55,160,6189,20304,21409>>, <<1,-53,252,27794,10335,25690>>, <<0,-55,160,6189,20304,21409>>>>,
  <<<<0,-49,149,28707,25763,22631>>, <<1,-53,255,18893,22827,2664>>, <<0,-57,235,15762,20356,3244>>, <<1,-53,255,18893,22827,2664>>, <<0,-57,235,15762,20356,3244>>>>,
  <<<<0,-49,150,26097,32358,8658>>, <<1,-52,128,0,0,0>>, <<0,-104,211,25829,6461,2570>>, <<1,-52,128,0,0,0>>, <<0,-104,211,25829,6461,2570>>>>,
  <<<<0,-49,152,12758,24664,19498>>, <<1,-53,254,23997,23614,17757>>, <<1,-56,203,18250,14758,22743>>, <<1,-53,254,23997,23614,17757>>, <<1,-56,203,18250,14758,22743>>>>,
  <<<<0,-49,153,10148,31259,5525>>, <<1,-53,252,27794,10335,25693>>, <<1,-55,160,6189,20304,21320>>, <<1,-53,252,27794,10335,25693>>, <<1,-55,160,6189,20304,21320>>>>,
  <<<<0,-49,153,10148,31259,5526>>, <<1,-53,252,27794,10335,25691>>, <<1,-55,160,6189,20304,21383>>, <<1,-53,252,27794,10335,25691>>, <<1,-55,160,6189,20304,21383>>>>,
  <<<<0,-49,154,29577,23565,16366>>, <<1,-53,247,20177,6089,10424>>, <<1,-54,129,31475,7142,10811>>, <<1,-53,247,20177,6089,10423>>, <<1,-54,129,31475,7142,10811>>>>,
  <<<<0,-49,155,26967,30160,2393>>, <<1,-53,243,15416,9864,21760>>, <<1,-54,158,7100,28255,26953>>, <<1,-53,243,15416,9864,21760>>, <<1,-54,158,7100,28255,26953>>>>,
  <<<<0,-49,157,13628,22466,13234>>, <<1,-53,234,13174,5399,3274>>, <<1,-54,205,27256,8438,12605>>, <<1,-53,234,13174,5399,3274>>, <<1,-54,205,27256,8438,12605>>>>,
  <<<<0,-49,158,11018,29060,32028>>, <<1,-53,228,3200,14970,11378>>, <<1,-54,232,14520,22153,24044>>, <<1,-53,228,3200,14970,11378>>, <<1,-54,232,14520,22153,24044>>>>,
  <<<<0,-49,158,11018,29060,32029>>, <<1,-53,228,3200,14970,11371>>, <<1,-54,232,14520,22153,24073>>, <<1,-53,228,3200,14970,11371>>, <<1,-54,232,14520,22153,24073>>>>,
  <<<<0,-49,159,30447,21367,10101>>, <<1,-53,215,13650,7698,3312>>, <<1,-53,138,10400,8042,1672>>, <<1,-53,215,13650,7698,3312>>, <<1,-53,138,10400,8042,1672>>>>,
  <<<<0,-49,160,0,0,0>>, <<1,-53,214,26290,4632,27423>>, <<1,-53,139,8827,27622,20306>>, <<1,-53,214,26290,4632,27423>>, <<1,-53,139,8827,27622,20306>>>>,
  <<<<0,-49,160,27837,27961,28896>>, <<1,-53,207,3550,14127,29866>>, <<1,-53,150,15500,2282,23131>>, <<1,-53,207,3550,14127,29866>>, <<1,-53,150,15500,2282,23131>>>>,
  <<<<0,-49,162,14498,20268,6968>>, <<1,-53,191,4155,31299,19822>>, <<1,-53,170,10258,650,9276>>, <<1,-53,191,4155,31299,19822>>, <<1,-53,170,10258,650,9276>>>>,
  <<<<0,-49,163,11888,26862,25763>>, <<1,-53,181,633,19710,15317>>, <<1,-53,181,633,19710,15300>>, <<1,-53,181,633,19710,15317>>, <<1,-53,181,633,19710,15300>>>>,
  <<<<0,-49,163,11888,26862,25764>>, <<1,-53,181,633,19710,15305>>, <<1,-53,181,633,19710,15312>>, <<1,-53,181,633,19710,15305>>, <<1,-53,181,633,19710,15312>>>>,
  <<<<0,-49,164,31317,19169,3836>>, <<1,-53,162,4289,22022,28570>>, <<1,-53,198,3769,17463,17236>>, <<1,-53,162,4289,22022,28569>>, <<1,-53,198,3769,17463,17236>>>>,
  <<<<0,-49,165,28707,25763,22631>>, <<1,-53,150,15500,2282,23137>>, <<1,-53,207,3550,14127,29862>>, <<1,-53,150,15500,2282,23137>>, <<1,-53,207,3550,14127,29862>>>>,
  <<<<0,-49,167,15368,18070,704>>, <<1,-53,129,4678,30915,26182>>, <<1,-53,221,1270,18327,7478>>, <<1,-53,129,4678,30915,26182>>, <<1,-53,221,1270,18327,7478>>>>,
  <<<<0,-49,168,12758,24664,19498>>, <<1,-54,232,14520,22153,24086>>, <<1,-53,228,3200,14970,11367>>, <<1,-54,232,14520,22153,24086>>, <<1,-53,228,3200,14970,11367>>>>,
  <<<<0,-49,168,12758,24664,19499>>, <<1,-54,232,14520,22153,24057>>, <<1,-53,228,3200,14970,11375>>, <<1,-54,232,14520,22153,24057>>, <<1,-53,228,3200,14970,11375>>>>,
  <<<<0,-49,169,32187,16970,30339>>, <<1,-54,185,31112,30294,24958>>, <<1,-53,238,17032,30244,24689>>, <<1,-54,185,31112,30294,24958>>, <<1,-53,238,17032,30244,24689>>>>,
  <<<<0,-49,170,29577,23565,16366>>, <<1,-54,158,7100,28255,26967>>, <<1,-53,243,15416,9864,21758>>, <<1,-54,158,7100,28255,26967>>, <<1,-53,243,15416,9864,21758>>>>,
  <<<<0,-49,172,16238,15871,27206>>, <<1,-55,218,2274,21636,12989>>, <<1,-53,250,4183,30632,24478>>, <<1,-55,218,2274,21636,12989>>, <<1,-53,250,4183,30632,24478>>>>,
  <<<<0,-49,173,13628,22466,13233>>, <<1,-55,160,6189,20304,21412>>, <<1,-53,252,27794,10335,25690>>, <<1,-55,160,6189,20304,21412>>, <<1,-53,252,27794,10335,25690>>>>,
  <<<<0,-49,173,13628,22466,13234>>, <<1,-55,160,6189,20304,21348>>, <<1,-53,252,27794,10335,25692>>, <<1,-55,160,6189,20304,21348>>, <<1,-53,252,27794,10335,25692>>>>,
  <<<<0,-49,175,289,14772,24074>>, <<1,-57,235,15762,20356,3253>>, <<1,-53,255,18893,22827,2664>>, <<1,-57,235,15762,20356,3253>>, <<1,-53,255,18893,22827,2664>>>>,
  <<<<0,-49,175,30447,21367,10101>>, <<1,-104,247,2827,12999,8460>>, <<1,-52,128,0,0,0>>, <<1,-104,247,2827,12999,8460>>, <<1,-52,128,0,0,0>>>>,
  <<<<0,-49,177,17108,13673,20942>>, <<0,-56,203,18250,14758,22866>>, <<1,-53,254,23997,23614,17756>>, <<0,-56,203,18250,14758,22866>>, <<1,-53,254,23997,23614,17756>>>>,
  <<<<0,-49,178,14498,20268,6968>>, <<0,-55,160,6189,20304,21318>>, <<1,-53,252,27794,10335,25693>>, <<0,-55,160,6189,20304,21318>>, <<1,-53,252,27794,10335,25693>>>>,
  <<<<0,-49,178,14498,20268,6969>>, <<0,-55,160,6189,20304,21381>>, <<1,-53,252,27794,10335,25691>>, <<0,-55,160,6189,20304,21381>>, <<1,-53,252,27794,10335,25691>>>>,
  <<<<0,-49,180,1159,12574,17809>>, <<0,-54,129,31475,7142,10809>>, <<1,-53,247,20177,6089,10424>>, <<0,-54,129,31475,7142,10809>>, <<1,-53,247,20177,6089,10424>>>>,
  <<<<0,-49,180,31317,19169,3836>>, <<0,-54,158,7100,28255,26952>>, <<1,-53,243,15416,9864,21761>>, <<0,-54,158,7100,28255,26952>>, <<1,-53,243,15416,9864,21761>>>>,
  <<<<0,-49,182,17978,11475,14676>>, <<0,-54,205,27256,8438,12575>>, <<1,-53,234,13174,5399,3281>>, <<0,-54,205,27256,8438,12575>>, <<1,-53,234,13174,5399,3281>>>>,
  <<<<0,-49,183,15368,18070,703>>, <<0,-54,232,14520,22153,24043>>, <<1,-53,228,3200,14970,11378>>, <<0,-54,232,14520,22153,24043>>, <<1,-53,228,3200,14970,11378>>>>,
  <<<<0,-49,183,15368,18070,704>>, <<0,-54,232,14520,22153,24072>>, <<1,-53,228,3200,14970,11371>>, <<0,-54,232,14520,22153,24072>>, <<1,-53,228,3200,14970,11371>>>>,
  <<<<0,-49,185,2029,10376,11544>>, <<0,-53,138,10400,8042,1672>>, <<1,-53,215,13650,7698,3312>>, <<0,-53,138,10400,8042,1672>>, <<1,-53,215,13650,7698,3312>>>>,
  <<<<0,-49,185,32187,16970,30339>>, <<0,-53,150,15500,2282,23131>>, <<1,-53,207,3550,14127,29866>>, <<0,-53,150,15500,2282,23131>>, <<1,-53,207,3550,14127,29866>>>>,
  <<<<0,-49,187,18848,9277,8412>>, <<0,-53,170,10258,650,9288>>, <<1,-53,191,4155,31299,19812>>, <<0,-53,170,10258,650,9288>>, <<1,-53,191,4155,31299,19812>>>>,
  <<<<0,-49,188,16238,15871,27206>>, <<0,-53,181,633,19710,15300>>, <<1,-53,181,633,19710,15317>>, <<0,-53,181,633,19710,15300>>, <<1,-53,181,633,19710,15317>>>>,
  <<<<0,-49,188,16238,15871,27207>>, <<0,-53,181,633,19710,15311>>, <<1,-53,181,633,19710,15306>>, <<0,-53,181,633,19710,15311>>, <<1,-53,181,633,19710,15306>>>>,
  <<<<0,-49,191,289,14772,24074>>, <<0,-53,207,3550,14127,29861>>, <<1,-53,150,15500,2282,23137>>, <<0,-53,207,3550,14127,29861>>, <<1,-53,150,15500,2282,23137>>>>,
  <<<<0,-49,193,17108,13673,20941>>, <<0,-53,228,3200,14970,11367>>, <<1,-54,232,14520,22153,24087>>, <<0,-53,228,3200,14970,11367>>, <<1,-54,232,14520,22153,24087>>>>,
  <<<<0,-49,193,17108,13673,20942>>, <<0,-53,228,3200,14970,11374>>, <<1,-54,232,14520,22153,24058>>, <<0,-53,228,3200,14970,11374>>, <<1,-54,232,14520,22153,24058>>>>,
  <<<<0,-49,196,1159,12574,17809>>, <<0,-53,243,15416,9864,21758>>, <<1,-54,158,7100,28255,26968>>, <<0,-53,243,15416,9864,21758>>, <<1,-54,158,7100,28255,26968>>>>,
  <<<<0,-49,198,17978,11475,14676>>, <<0,-53,252,27794,10335,25690>>, <<1,-55,160,6189,20304,21414>>, <<0,-53,252,27794,10335,25690>>, <<1,-55,160,6189,20304,21414>>>>,
  <<<<0,-49,198,17978,11475,14677>>, <<0,-53,252,27794,10335,25692>>, <<1,-55,160,6189,20304,21351>>, <<0,-53,252,27794,10335,25692>>, <<1,-55,160,6189,20304,21351>>>>,
  <<<<0,-49,201,2029,10376,11544>>, <<0,-52,128,0,0,0>>, <<1,-103,141,6296,26152,23559>>, <<0,-52,128,0,0,0>>, <<1,-103,141,6296,26152,23559>>>>,
  <<<<0,-49,203,18848,9277,8411>>, <<0,-53,252,27794,10335,25694>>, <<0,-55,160,6189,20304,21316>>, <<0,-53,252,27794,10335,25694>>, <<0,-55,160,6189,20304,21316>>>>,
  <<<<0,-49,203,18848,9277,8412>>, <<0,-53,252,27794,10335,25691>>, <<0,-55,160,6189,20304,21379>>, <<0,-53,252,27794,10335,25691>>, <<0,-55,160,6189,20304,21379>>>>,
  <<<<0,-49,206,2899,8178,5279>>, <<0,-53,243,15416,9864,21761>>, <<0,-54,158,7100,28255,26951>>, <<0,-53,243,15416,9864,21761>>, <<0,-54,158,7100,28255,26951>>>>,
  <<<<0,-49,208,19718,7079,2146>>, <<0,-53,228,3200,14970,11378>>, <<0,-54,232,14520,22153,24042>>, <<0,-53,228,3200,14970,11378>>, <<0,-54,232,14520,22153,24042>>>>,
  <<<<0,-49,208,19718,7079,2147>>, <<0,-53,228,3200,14970,11371>>, <<0,-54,232,14520,22153,24071>>, <<0,-53,228,3200,14970,11371>>, <<0,-54,232,14520,22153,24071>>>>,
  <<<<0,-49,211,3769,5979,31782>>, <<0,-53,207,3550,14127,29867>>, <<0,-53,150,15500,2282,23130>>, <<0,-53,207,3550,14127,29866>>, <<0,-53,150,15500,2282,23130>>>>,
  <<<<0,-49,213,20588,4880,28649>>, <<0,-53,181,633,19710,15318>>, <<0,-53,181,633,19710,15300>>, <<0,-53,181,633,19710,15318>>, <<0,-53,181,633,19710,15300>>>>,
  <<<<0,-49,213,20588,4880,28650>>, <<0,-53,181,633,19710,15306>>, <<0,-53,181,633,19710,15311>>, <<0,-53,181,633,19710,15306>>, <<0,-53,181,633,19710,15311>>>>,
  <<<<0,-49,216,4639,3781,25517>>, <<0,-53,150,15500,2282,23138>>, <<0,-53,207,3550,14127,29861>>, <<0,-53,150,15500,2282,23138>>, <<0,-53,207,3550,14127,29861>>>>,
  <<<<0,-49,218,21458,2682,22384>>, <<0,-54,232,14520,22153,24088>>, <<0,-53,228,3200,14970,11367>>, <<0,-54,232,14520,22153,24088>>, <<0,-53,228,3200,14970,11367>>>>,
  <<<<0,-49,218,21458,2682,22385>>, <<0,-54,232,14520,22153,24059>>, <<0,-53,228,3200,14970,11374>>, <<0,-54,232,14520,22153,24059>>, <<0,-53,228,3200,14970,11374>>>>,
  <<<<0,-49,221,5509,1583,19252>>, <<0,-54,158,7100,28255,26969>>, <<0,-53,243,15416,9864,21758>>, <<0,-54,158,7100,28255,26969>>, <<0,-53,243,15416,9864,21758>>>>,
  <<<<0,-49,223,22328,484,16119>>, <<0,-55,160,6189,20304,21416>>, <<0,-53,252,27794,10335,25690>>, <<0,-55,160,6189,20304,21416>>, <<0,-53,252,27794,10335,25690>>>>,
  <<<<0,-49,223,22328,484,16120>>, <<0,-55,160,6189,20304,21353>>, <<0,-53,252,27794,10335,25692>>, <<0,-55,160,6189,20304,21353>>, <<0,-53,252,27794,10335,25692>>>>,
  <<<<0,-49,226,6378,32153,12987>>, <<0,-103,158,27563,29421,26504>>, <<0,-52,128,0,0,0>>, <<0,-103,158,27563,29421,26504>>, <<0,-52,128,0,0,0>>>>,
  <<<<0,-49,228,23197,31054,9854>>, <<1,-55,160,6189,20304,21314>>, <<0,-53,252,27794,10335,25694>>, <<1,-55,160,6189,20304,21314>>, <<0,-53,252,27794,10335,25694>>>>,
  <<<<0,-49,228,23197,31054,9855>>, <<1,-55,160,6189,20304,21377>>, <<0,-53,252,27794,10335,25691>>, <<1,-55,160,6189,20304,21377>>, <<0,-53,252,27794,10335,25691>>>>,
  <<<<0,-49,231,7248,29955,6722>>, <<1,-54,158,7100,28255,26950>>, <<0,-53,243,15416,9864,21761>>, <<1,-54,158,7100,28255,26950>>, <<0,-53,243,15416,9864,21761>>>>,
  <<<<0,-49,233,24067,28856,3590>>, <<1,-54,232,14520,22153,24070>>, <<0,-53,228,3200,14970,11371>>, <<1,-54,232,14520,22153,24070>>, <<0,-53,228,3200,14970,11371>>>>,
  <<<<0,-49,236,8118,27757,457>>, <<1,-53,150,15500,2282,23130>>, <<0,-53,207,3550,14127,29867>>, <<1,-53,150,15500,2282,23130>>, <<0,-53,207,3550,14127,29867>>>>,
  <<<<0,-49,238,24937,26657,30092>>, <<1,-53,181,633,19710,15299>>, <<0,-53,181,633,19710,15318>>, <<1,-53,181,633,19710,15299>>, <<0,-53,181,633,19710,15318>>>>,
  <<<<0,-49,241,8988,25558,26960>>, <<1,-53,207,3550,14127,29861>>, <<0,-53,150,15500,2282,23138>>, <<1,-53,207,3550,14127,29861>>, <<0,-53,150,15500,2282,23138>>>>,
  <<<<0,-49,243,25807,24459,23828>>, <<1,-53,228,3200,14970,11374>>, <<0,-54,232,14520,22153,24060>>, <<1,-53,228,3200,14970,11374>>, <<0,-54,232,14520,22153,24060>>>>,
  <<<<0,-49,246,9858,23360,20695>>, <<1,-53,243,15416,9864,21758>>, <<0,-54,158,7100,28255,26970>>, <<1,-53,243,15416,9864,21758>>, <<0,-54,158,7100,28255,26970>>>>,
  <<<<0,-49,248,26677,22261,17562>>, <<1,-53,252,27794,10335,25690>>, <<0,-55,160,6189,20304,21418>>, <<1,-53,252,27794,10335,25689>>, <<0,-55,160,6189,20304,21418>>>>,
  <<<<0,-49,251,10728,21162,14430>>, <<1,-52,128,0,0,0>>, <<0,-103,176,16062,32690,29449>>, <<1,-52,128,0,0,0>>, <<0,-103,176,16062,32690,29449>>>>,
  <<<<0,-49,253,27547,20063,11298>>, <<1,-53,252,27794,10335,25691>>, <<1,-55,160,6189,20304,21375>>, <<1,-53,252,27794,10335,25691>>, <<1,-55,160,6189,20304,21375>>>>,
  <<<<0,-39,202,16422,13107,6553>>, <<1,-53,137,5665,11809,28572>>, <<1,-53,216,4822,11079,1951>>, <<1,-53,137,5665,11809,28571>>, <<1,-53,216,4822,11079,1951>>>>,
  <<<<0,-37,168,24608,0,0>>, <<1,-53,250,13329,31649,28538>>, <<1,-55,212,28918,10383,26000>>, <<1,-53,250,13329,31649,28538>>, <<1,-55,212,28918,10383,26000>>>>,
  <<<<0,-36,168,24608,0,0>>, <<0,-53,233,28560,17803,23999>>, <<0,-54,208,7581,12276,13613>>, <<0,-53,233,28560,17803,23999>>, <<0,-54,208,7581,12276,13613>>>> >>

(***************************************************************************)
(* Math: the constant PI and the transcendental functions.  ECMAScript     *)
(* leaves Math.cos and Math.sin implementation-approximated; the engine    *)
(* in use is one of Libms, and TrigRows holds, for every argument the      *)
(* program passes, the result of each.                                     *)
(***************************************************************************)
Libms == {"fdlibm", "glibc"}

MathPI == D(0,-51,201,2029,10376,11544)

\* the row of rows whose first element is key
RowOf(rows, key) == rows[CHOOSE i \in 1..Len(rows) : rows[i][1] = key]

\* the row of TrigRows for the argument x
TrigRow(x) == Call("TrigRow", <<x>>)

TrigRowBody(x) == RowOf(TrigRows, <<x.s, x.e, x.m[4], x.m[3], x.m[2], x.m[1]>>)

\* element k of the row r as a binary64 value
RowValue(r, k) == D(r[k][1], r[k][2], r[k][3], r[k][4], r[k][5], r[k][6])

MathCos(lib, x) == RowValue(TrigRow(x), IF lib = "fdlibm" THEN 2 ELSE 4)

MathSin(lib, x) == RowValue(TrigRow(x), IF lib = "fdlibm" THEN 3 ELSE 5)

FGt(x, y) == FCmp(x, y) > 0

(***************************************************************************)
(* Constants of DNAHelix.tsx                                               *)
(***************************************************************************)
BASE_PAIR_COUNT == 20

VERTICAL_STEP == D(0,-54,230,13107,6553,19661)

HELIX_RADIUS == D(0,-52,153,19660,26214,13107)

TWIST_PER_STEP == FDiv(FMul(FInt(2), MathPI), FInt(10))

BACKBONE_TUBE_SEGMENTS == 128

BACKBONE_TUBE_RADIUS == D(0,-57,245,24903,22282,7864)

CYAN == "#7df9ff"

GREEN == "#00ff88"

PURPLE == "#9b59b6"

\* 4x oversampling of the backbone curve
Oversampling == 4

(***************************************************************************)
(* three.js: Vector3, Quaternion, Matrix4 and Object3D, operation by       *)
(* operation in binary64 as the library computes them.                     *)
(***************************************************************************)
Vector3(x, y, z) == <<x, y, z>>

subVectors(a, b) == Call("subVectors", <<a, b>>)

subVectorsBody(a, b) == <<FSub(a[1], b[1]), FSub(a[2], b[2]), FSub(a[3], b[3])>>

lengthSq(v) == Call("lengthSq", <<v>>)

lengthSqBody(v) == FAdd(FAdd(FMul(v[1], v[1]), FMul(v[2], v[2])), FMul(v[3], v[3]))

multiplyScalar(v, k) == Call("multiplyScalar", <<v, k>>)

multiplyScalarBody(v, k) == <<FMul(v[1], k), FMul(v[2], k), FMul(v[3], k)>>

\* divideScalar(length() || 1), divideScalar(k) being multiplyScalar(1 / k)
normalize(v) == Call("normalize", <<v>>)

normalizeBody(v) ==
  LET sq  == lengthSq(v)
      len == FSqrt(sq)
      k   == FDiv(FOne, IF FIsZero(len) THEN FOne ELSE len)
  IN  InOrder(<<v, sq, len, k, multiplyScalar(v, k)>>)

crossVectors(a, b) == Call("crossVectors", <<a, b>>)

crossVectorsBody(a, b) ==
  << FSub(FMul(a[2], b[3]), FMul(a[3], b[2])),
     FSub(FMul(a[3], b[1]), FMul(a[1], b[3])),
     FSub(FMul(a[1], b[2]), FMul(a[2], b[1])) >>

\* a Matrix4 is its sixteen elements in column-major order (elements[k] is te[k + 1])
Matrix4Identity ==
  << FOne, FZero, FZero, FZero,  FZero, FOne, FZero, FZero,
     FZero, FZero, FOne, FZero,  FZero, FZero, FZero, FOne >>

\* Matrix4.lookAt(eye, target, up): the rotation whose z axis runs from target to eye
Matrix4lookAt(eye, target, up) == Call("Matrix4lookAt", <<eye, target, up>>)

Matrix4lookAtBody(eye, target, up) ==
  LET z0 == subVectors(eye, target)
      z1 == normalize(IF FIsZero(lengthSq(z0)) THEN <<z0[1], z0[2], FOne>> ELSE z0)
      x1 == crossVectors(up, z1)
      z2 == IF FIsZero(lengthSq(x1))
            THEN normalize(IF FAbs(up[3]) = FOne
                           THEN <<FAdd(z1[1], D(0,-66,209,23435,22072,17197)), z1[2], z1[3]>>
                           ELSE <<z1[1], z1[2], FAdd(z1[3], D(0,-66,209,23435,22072,17197))>>)
            ELSE z1
      x2 == normalize(IF FIsZero(lengthSq(x1)) THEN crossVectors(up, z2) ELSE x1)
      y2 == crossVectors(z2, x2)
  IN  InOrder(<< eye, target, up, z0, z1, x1, z2, x2, y2,
                 << x2[1], x2[2], x2[3], FZero,  y2[1], y2[2], y2[3], FZero,
                    z2[1], z2[2], z2[3], FZero,  FZero, FZero, FZero, FOne >> >>)

\* a Quaternion is <<x, y, z, w>>
QuaternionIdentity == <<FZero, FZero, FZero, FOne>>

setFromRotationMatrix(te) == Call("setFromRotationMatrix", <<te>>)

setFromRotationMatrixBody(te) ==
  LET m11 == te[1]  m12 == te[5]  m13 == te[9]
      m21 == te[2]  m22 == te[6]  m23 == te[10]
      m31 == te[3]  m32 == te[7]  m33 == te[11]
      trace == FAdd(FAdd(m11, m22), m33)
      half    == D(0,-53,128,0,0,0)
      quarter == D(0,-54,128,0,0,0)
      k0 == FDiv(half, FSqrt(FAdd(trace, FOne)))
      k1 == FMul(FInt(2), FSqrt(FSub(FSub(FAdd(FOne, m11), m22), m33)))
      k2 == FMul(FInt(2), FSqrt(FSub(FSub(FAdd(FOne, m22), m11), m33)))
      k3 == FMul(FInt(2), FSqrt(FSub(FSub(FAdd(FOne, m33), m11), m22)))
  IN  IF InOrder(<<te, trace, FGt(trace, FZero)>>)
      THEN InOrder(<< k0,
                      << FMul(FSub(m32, m23), k0), FMul(FSub(m13, m31), k0),
                         FMul(FSub(m21, m12), k0), FDiv(quarter, k0) >> >>)
      ELSE IF FGt(m11, m22) /\ FGt(m11, m33)
      THEN InOrder(<< k1,
                      << FMul(quarter, k1), FDiv(FAdd(m12, m21), k1),
                         FDiv(FAdd(m13, m31), k1), FDiv(FSub(m32, m23), k1) >> >>)
      ELSE IF FGt(m22, m33)
      THEN InOrder(<< k2,
                      << FDiv(FAdd(m12, m21), k2), FMul(quarter, k2),
                         FDiv(FAdd(m23, m32), k2), FDiv(FSub(m13, m31), k2) >> >>)
      ELSE InOrder(<< k3,
                      << FDiv(FAdd(m13, m31), k3), FDiv(FAdd(m23, m32), k3),
                         FMul(quarter, k3), FDiv(FSub(m21, m12), k3) >> >>)

setFromAxisAngle(lib, axis, angle) == Call("setFromAxisAngle", <<lib, axis, angle>>)

setFromAxisAngleBody(lib, axis, angle) ==
  LET halfAngle == FDivPow2(angle, 1)
      k         == MathSin(lib, halfAngle)
  IN  InOrder(<< halfAngle, k,
                 <<FMul(axis[1], k), FMul(axis[2], k), FMul(axis[3], k), MathCos(lib, halfAngle)>> >>)

multiplyQuaternions(a, b) == Call("multiplyQuaternions", <<a, b>>)

multiplyQuaternionsBody(a, b) ==
  LET qax == a[1]  qay == a[2]  qaz == a[3]  qaw == a[4]
      qbx == b[1]  qby == b[2]  qbz == b[3]  qbw == b[4]
  IN  InOrder(<< a, b,
        << FSub(FAdd(FAdd(FMul(qax, qbw), FMul(qaw, qbx)), FMul(qay, qbz)), FMul(qaz, qby)),
           FSub(FAdd(FAdd(FMul(qay, qbw), FMul(qaw, qby)), FMul(qaz, qbx)), FMul(qax, qbz)),
           FSub(FAdd(FAdd(FMul(qaz, qbw), FMul(qaw, qbz)), FMul(qax, qby)), FMul(qay, qbx)),
           FSub(FSub(FSub(FMul(qaw, qbw), FMul(qax, qbx)), FMul(qay, qby)), FMul(qaz, qbz)) >> >>)

\* Matrix4.compose(position, quaternion, scale)
compose(position, q, scale) == Call("compose", <<position, q, scale>>)

composeBody(position, q, scale) ==
  LET x == q[1]  y == q[2]  z == q[3]  w == q[4]
      x2 == FAdd(x, x)  y2 == FAdd(y, y)  z2 == FAdd(z, z)
      xx == FMul(x, x2)  xy == FMul(x, y2)  xz == FMul(x, z2)
      yy == FMul(y, y2)  yz == FMul(y, z2)  zz == FMul(z, z2)
      wx == FMul(w, x2)  wy == FMul(w, y2)  wz == FMul(w, z2)
      sx == scale[1]  sy == scale[2]  sz == scale[3]
  IN  InOrder(<< position, q, scale, x2, y2, z2, xx, xy, xz, yy, yz, zz, wx, wy, wz,
        << FMul(FSub(FOne, FAdd(yy, zz)), sx), FMul(FAdd(xy, wz), sx), FMul(FSub(xz, wy), sx), FZero,
           FMul(FSub(xy, wz), sy), FMul(FSub(FOne, FAdd(xx, zz)), sy), FMul(FAdd(yz, wx), sy), FZero,
           FMul(FAdd(xz, wy), sz), FMul(FSub(yz, wx), sz), FMul(FSub(FOne, FAdd(xx, yy)), sz), FZero,
           position[1], position[2], position[3], FOne >> >>)

\* new THREE.Object3D()
Object3D ==
  [ position   |-> <<FZero, FZero, FZero>>,
    quaternion |-> QuaternionIdentity,
    scale      |-> <<FOne, FOne, FOne>>,
    up         |-> <<FZero, FOne, FZero>>,
    matrix     |-> Matrix4Identity ]

updateMatrix(o) == Call("updateMatrix", <<o>>)

updateMatrixBody(o) ==
  LET m == compose(o.position, o.quaternion, o.scale)
  IN  InOrder(<<o, m, [o EXCEPT !.matrix = m]>>)

\* Object3D.lookAt(x, y, z) of an object without parent that is neither camera nor
\* light: the world matrix is refreshed, then the object's +z axis is turned to the target
Object3DlookAt(o, x, y, z) == Call("Object3DlookAt", <<o, x, y, z>>)

Object3DlookAtBody(o, x, y, z) ==
  LET o1 == updateMatrix(o)
      position == <<o1.matrix[13], o1.matrix[14], o1.matrix[15]>>
      m1 == Matrix4lookAt(Vector3(x, y, z), position, o1.up)
      q  == setFromRotationMatrix(m1)
  IN  InOrder(<<o1, m1, q, [o1 EXCEPT !.quaternion = q]>>)

\* Object3D.rotateX(angle): rotateOnAxis((1, 0, 0), angle)
rotateX(lib, o, angle) == Call("rotateX", <<lib, o, angle>>)

\* rotateX that leaves the object as it is
rotateXSkipped(lib, o, angle) == o

rotateXBody(lib, o, angle) ==
  LET q1 == setFromAxisAngle(lib, <<FOne, FZero, FZero>>, angle)
      q  == multiplyQuaternions(o.quaternion, q1)
  IN  InOrder(<<o, q1, q, [o EXCEPT !.quaternion = q]>>)

(***************************************************************************)
(* DNAHelix.tsx: geometry generation                                       *)
(***************************************************************************)
\* the phase offsets of the two strands (DNAHelix, lines 255-260)
PhaseA == FZero

\* strand B given the phase offset of strand A
PhaseBSameAsA == FZero

PhaseB == MathPI

\* phase offsets the geometry functions are applied to: those of the two strands and -1
Phases == { PhaseA, PhaseB, FNeg(FOne) }

\* y = t * VERTICAL_STEP - (BASE_PAIR_COUNT * VERTICAL_STEP) / 2
CentredY(t) == Call("CentredY", <<t>>)

CentredYBody(t) ==
  FSub(FMul(t, VERTICAL_STEP), FDivPow2(FMul(FInt(BASE_PAIR_COUNT), VERTICAL_STEP), 1))

\* the body of the loop of buildBackboneCurve for loop index i
CurvePoint(lib, phaseOffset, i) == Call("CurvePoint", <<lib, phaseOffset, i>>)

CurvePointBody(lib, phaseOffset, i) ==
  LET t     == FDivPow2(FInt(i), 2)
      angle == FAdd(FMul(t, TWIST_PER_STEP), phaseOffset)
      y     == CentredY(t)
  IN  Vector3(FMul(MathCos(lib, angle), HELIX_RADIUS), y,
              FMul(MathSin(lib, angle), HELIX_RADIUS))

\* CurveLoopExclusive is the loop with the condition i < totalSteps.
\* for (let i = 0; i <= totalSteps; i++) points.push(...): element i + 1 of
\* points is pushed by the pass with loop index i
CurveLoopExclusive(lib, phaseOffset, totalSteps) ==
  AsSeq([k \in 1..totalSteps |-> CurvePoint(lib, phaseOffset, k - 1)])

CurveLoop(lib, phaseOffset, totalSteps) ==
  AsSeq([k \in 1..(totalSteps + 1) |-> CurvePoint(lib, phaseOffset, k - 1)])

\* the points the loop of buildBackboneCurve pushes, worked out once for every
\* engine and phase offset
CurvePointsOf ==
  [m \in Libms |-> [p \in Phases |-> CurveLoop(m, p, BASE_PAIR_COUNT * Oversampling)]]

\* new THREE.CatmullRomCurve3(points, false, 'catmullrom', 0.5)
buildBackboneCurve(lib, phaseOffset) ==
  [ points    |-> CurvePointsOf[lib][phaseOffset],
    closed    |-> FALSE,
    curveType |-> "catmullrom",
    tension   |-> FDivPow2(FOne, 1) ]

\* new THREE.TubeGeometry(curve, BACKBONE_TUBE_SEGMENTS, BACKBONE_TUBE_RADIUS, 8, false)
TubeGeometry(curve, tubularSegments, radius, radialSegments, closed) ==
  [ path |-> curve, tubularSegments |-> tubularSegments, radius |-> radius,
    radialSegments |-> radialSegments, closed |-> closed ]

\* the useMemo of BackboneStrand
BackboneStrandGeometry(lib, phaseOffset) ==
  TubeGeometry(buildBackboneCurve(lib, phaseOffset),
               BACKBONE_TUBE_SEGMENTS, BACKBONE_TUBE_RADIUS, 8, FALSE)

\* <cylinderGeometry args={[0.03, 0.03, 2, 6]} />: the height of the rung prototype
RungCylinderHeight == FInt(2)

\* the sum of a and b, not halved
MidpointNotHalved(a, b) == FAdd(a, b)

\* (a + b) / 2
Midpoint(a, b) == FDivPow2(FAdd(a, b), 1)

\* one pass of the loop of BasePairRungs on the shared dummy object: the dummy
\* as the pass leaves it
RungStep(lib, dummy, i) == Call("RungStep", <<lib, dummy, i>>)

RungStepBody(lib, dummy, i) ==
  LET angle  == FMul(FInt(i), TWIST_PER_STEP)
      y      == CentredY(FInt(i))
      ax     == FMul(MathCos(lib, angle), HELIX_RADIUS)
      az     == FMul(MathSin(lib, angle), HELIX_RADIUS)
      bx     == FMul(MathCos(lib, FAdd(angle, MathPI)), HELIX_RADIUS)
      bz     == FMul(MathSin(lib, FAdd(angle, MathPI)), HELIX_RADIUS)
      cx     == Midpoint(ax, bx)
      cz     == Midpoint(az, bz)
      length == FMul(HELIX_RADIUS, FInt(2))
      d1     == [dummy EXCEPT !.position = Vector3(cx, y, cz)]
      d2     == Object3DlookAt(d1, bx, y, bz)
      d3     == rotateX(lib, d2, FDivPow2(MathPI, 1))
      d4     == [d3 EXCEPT !.scale = Vector3(FOne, FDivPow2(length, 1), FOne)]
  IN  InOrder(<<angle, y, ax, az, bx, bz, cx, cz, length, d1, d2, d3, d4, updateMatrix(d4)>>)

\* for (let i = 0; i < BASE_PAIR_COUNT; i++) { ... }: the dummy at the end of
\* each pass.  Every pass assigns position, quaternion (lookAt) and scale of the
\* dummy before it reads them and never assigns up, so the pass with loop index i
\* is RungStep on the dummy as constructed.
RungLoop(lib, dummy) ==
  AsSeq([k \in 1..BASE_PAIR_COUNT |-> RungStep(lib, dummy, k - 1)])

\* the passes of the loop of BasePairRungs, worked out once for every engine
RungPassesOf == [m \in Libms |-> RungLoop(m, Object3D)]

\* the useMemo of BasePairRungs: result.push(dummy.matrix.clone()) in every pass
RungMatrices(lib) ==
  AsSeq([k \in 1..Len(RungPassesOf[lib]) |-> RungPassesOf[lib][k].matrix])

\* dummy.scale at the updateMatrix() of every pass of BasePairRungs
RungScales(lib) ==
  AsSeq([k \in 1..Len(RungPassesOf[lib]) |-> RungPassesOf[lib][k].scale])

\* one pass of the loop of BackboneNodes on the shared dummy object
NodeStep(lib, phaseOffset, dummy, i) == Call("NodeStep", <<lib, phaseOffset, dummy, i>>)

\* the pass of the loop of BackboneNodes with the phase offset left out of the angle
NodeStepNoPhase(lib, phaseOffset, dummy, i) ==
  LET angle == FMul(FInt(i), TWIST_PER_STEP)
      y     == CentredY(FInt(i))
      d1    == [dummy EXCEPT !.position =
                  Vector3(FMul(MathCos(lib, angle), HELIX_RADIUS), y,
                          FMul(MathSin(lib, angle), HELIX_RADIUS))]
      d2    == [d1 EXCEPT !.scale = Vector3(FOne, FOne, FOne)]
  IN  InOrder(<<angle, y, d1, d2, updateMatrix(d2)>>)

NodeStepBody(lib, phaseOffset, dummy, i) ==
  LET angle == FAdd(FMul(FInt(i), TWIST_PER_STEP), phaseOffset)
      y     == CentredY(FInt(i))
      d1    == [dummy EXCEPT !.position =
                  Vector3(FMul(MathCos(lib, angle), HELIX_RADIUS), y,
                          FMul(MathSin(lib, angle), HELIX_RADIUS))]
      d2    == [d1 EXCEPT !.scale = Vector3(FOne, FOne, FOne)]
  IN  InOrder(<<angle, y, d1, d2, updateMatrix(d2)>>)

\* for (let i = 0; i < BASE_PAIR_COUNT; i++) { ...; result.push(dummy.matrix.clone()) }
\* Every pass assigns position and scale before it reads them and the quaternion
\* stays the identity, so the pass with loop index i is NodeStep on the dummy as
\* constructed.
NodeLoop(lib, phaseOffset, dummy) ==
  AsSeq([k \in 1..BASE_PAIR_COUNT |-> NodeStep(lib, phaseOffset, dummy, k - 1).matrix])

\* the matrices of the loop of BackboneNodes, worked out once for every engine
\* and phase offset
NodeMatricesOf == [m \in Libms |-> [p \in Phases |-> NodeLoop(m, p, Object3D)]]

\* the useMemo of BackboneNodes
NodeMatrices(lib, phaseOffset) == NodeMatricesOf[lib][phaseOffset]

\* rotation.y = t * 0.15; position.y = Math.sin(t * 0.5) * 0.15
FrameTransform(lib, t) == Call("FrameTransform", <<lib, t>>)

\* the transform with Math.cos in the place of Math.sin
FrameTransformCos(lib, t) ==
  [ rotationY |-> FMul(t, D(0,-55,153,19660,26214,13107)),
    positionY |-> FMul(MathCos(lib, FMul(t, D(0,-53,128,0,0,0))),
                       D(0,-55,153,19660,26214,13107)) ]

FrameTransformBody(lib, t) ==
  [ rotationY |-> FMul(t, D(0,-55,153,19660,26214,13107)),
    positionY |-> FMul(MathSin(lib, FMul(t, D(0,-53,128,0,0,0))),
                       D(0,-55,153,19660,26214,13107)) ]

Call(op, a) ==
  CASE op = "BNorm" -> BNormBody(a[1])
    [] op = "BMulLimb" -> BMulLimbBody(a[1], a[2])
    [] op = "BAdd" -> BAddBody(a[1], a[2])
    [] op = "BSub" -> BSubBody(a[1], a[2])
    [] op = "BCmp" -> BCmpBody(a[1], a[2])
    [] op = "BShl" -> BShlBody(a[1], a[2])
    [] op = "BShr" -> BShrBody(a[1], a[2])
    [] op = "BBitLen" -> BBitLenBody(a[1])
    [] op = "BTrim" -> BTrimBody(a[1])
    [] op = "BMul" -> BMulBody(a[1], a[2])
    [] op = "RoundBits" -> RoundBitsBody(a[1], a[2], a[3])
    [] op = "Normal" -> NormalBody(a[1], a[2], a[3])
    [] op = "RoundTo" -> RoundToBody(a[1], a[2], a[3], a[4])
    [] op = "ExactSum" -> ExactSumBody(a[1], a[2])
    [] op = "FMul" -> FMulBody(a[1], a[2])
    [] op = "FAdd" -> FAddBody(a[1], a[2])
    [] op = "FSub" -> FSubBody(a[1], a[2])
    [] op = "FCmp" -> FCmpBody(a[1], a[2])
    [] op = "DivDigit" -> DivDigitBody(a[1], a[2])
    [] op = "BDivMod" -> BDivModBody(a[1], a[2])
    [] op = "FDiv" -> FDivBody(a[1], a[2])
    [] op = "BSqrt" -> BSqrtBody(a[1])
    [] op = "FSqrt" -> FSqrtBody(a[1])
    [] op = "TrigRow" -> TrigRowBody(a[1])
    [] op = "subVectors" -> subVectorsBody(a[1], a[2])
    [] op = "lengthSq" -> lengthSqBody(a[1])
    [] op = "multiplyScalar" -> multiplyScalarBody(a[1], a[2])
    [] op = "normalize" -> normalizeBody(a[1])
    [] op = "crossVectors" -> crossVectorsBody(a[1], a[2])
    [] op = "Matrix4lookAt" -> Matrix4lookAtBody(a[1], a[2], a[3])
    [] op = "setFromRotationMatrix" -> setFromRotationMatrixBody(a[1])
    [] op = "setFromAxisAngle" -> setFromAxisAngleBody(a[1], a[2], a[3])
    [] op = "multiplyQuaternions" -> multiplyQuaternionsBody(a[1], a[2])
    [] op = "compose" -> composeBody(a[1], a[2], a[3])
    [] op = "updateMatrix" -> updateMatrixBody(a[1])
    [] op = "Object3DlookAt" -> Object3DlookAtBody(a[1], a[2], a[3], a[4])
    [] op = "rotateX" -> rotateXBody(a[1], a[2], a[3])
    [] op = "CentredY" -> CentredYBody(a[1])
    [] op = "CurvePoint" -> CurvePointBody(a[1], a[2], a[3])
    [] op = "RungStep" -> RungStepBody(a[1], a[2], a[3])
    [] op = "NodeStep" -> NodeStepBody(a[1], a[2], a[3], a[4])
    [] op = "FrameTransform" -> FrameTransformBody(a[1], a[2])

(***************************************************************************)
(* Inputs the model is run on                                              *)
(***************************************************************************)
\* elapsed times (seconds) the clock of the render loop may report:
\* 0, 1, Math.PI, 10, 86400.5
TimeSamples == { FZero, FOne, MathPI, D(0,-49,160,0,0,0), D(0,-36,168,24608,0,0) }

Strands == {"A", "B"}

PhaseOf(s) == IF s = "A" THEN PhaseA ELSE PhaseB

ColourOf(s) == IF s = "A" THEN CYAN ELSE GREEN

\* frame callbacks modelled per run
MaxFrames == 2

(***************************************************************************)
(* State                                                                   *)
(***************************************************************************)
VARIABLES
  math,            \* the engine's Math implementation, one of Libms
  suspense,        \* HeroScene: "pending" while the canvas subtree is loading, then "ready"
  loadFailed,      \* HeroScene: the load has failed (it will never complete)
  dom,             \* HeroScene: the parts of its output on screen
  done,            \* DNAHelix: number of steps of MountOrder completed
  strandGeometry,  \* BackboneStrand: geometry of each strand once rendered
  nodeMatrices,    \* BackboneNodes: matrices of each strand once rendered
  rungMatrices,    \* BasePairRungs: matrices once rendered
  rungScale,       \* BasePairRungs: dummy.scale behind each of rungMatrices
  groupRef,        \* DNAHelix: groupRef.current is set
  group,           \* DNAHelix: rotation.y and position.y of the group
  meshRef,         \* the instanced meshes whose meshRef.current is set
  mesh,            \* the three instanced meshes once committed
  written,         \* per instanced mesh, the indices passed to setMatrixAt
  frames,          \* frame callbacks run
  skipped,         \* frame callbacks that returned at the groupRef guard
  clock,           \* elapsed time of the clock at the last frame callback
  called,          \* per geometry function, the phase offsets it has been applied to
  fnOut            \* per geometry function and phase offset, what the application returned

vars == << math, suspense, loadFailed, dom, done, strandGeometry, nodeMatrices,
           rungMatrices, rungScale, groupRef, group, meshRef, mesh, written, frames,
           skipped, clock, called, fnOut >>

helixVars == << done, strandGeometry, nodeMatrices, rungMatrices, rungScale,
                groupRef, meshRef, mesh, written >>

sceneVars == << suspense, loadFailed, dom >>

frameVars == << group, frames, skipped, clock >>

fnVars == << called, fnOut >>

None == "none"

MeshIds == {"nodesA", "nodesB", "rungs"}

NodesMesh(s) == IF s = "A" THEN "nodesA" ELSE "nodesB"

\* the order in which React renders the components of DNAHelix (JSX order), commits
\* them (objects created, refs attached) and then runs their effects
MountOrder ==
  << "DNAHelix", "StrandA", "NodesA", "StrandB", "NodesB", "Rungs",
     "Commit", "EffectNodesA", "EffectNodesB", "EffectRungs" >>

NextStep == IF done < Len(MountOrder) THEN MountOrder[done + 1] ELSE None

(***************************************************************************)
(* HeroScene.tsx                                                           *)
(***************************************************************************)
\* HeroSceneOverlayInside is HeroScene with the overlay moved inside the Suspense
\* boundary, where it is replaced by the fallback with the rest of the subtree.
\* What HeroScene puts on screen: the Suspense boundary shows LoadingFallback
\* while its subtree is pending and the Canvas otherwise; the overlay is a sibling
HeroSceneOverlayInside(status) ==
  IF status = "ready" THEN {"canvas", "overlay"} ELSE {"fallback"}

HeroScene(status) ==
  (IF status = "ready" THEN {"canvas"} ELSE {"fallback"}) \cup {"overlay"}

\* the subtree of the Suspense boundary finishes loading
LoadDone ==
  /\ suspense = "pending"
  /\ ~loadFailed
  /\ suspense' = "ready"
  /\ dom' = HeroScene("ready")
  /\ UNCHANGED << math, loadFailed, helixVars, frameVars, fnVars >>

\* the load fails: HeroScene has no error boundary, timeout or retry, nothing in
\* it observes the failure and the boundary stays pending
LoadFail ==
  /\ suspense = "pending"
  /\ ~loadFailed
  /\ loadFailed' = TRUE
  /\ dom' = HeroScene(suspense)
  /\ UNCHANGED << math, suspense, helixVars, frameVars, fnVars >>

(***************************************************************************)
(* DNAHelix.tsx: mount                                                     *)
(***************************************************************************)
\* DNAHelix(): useRef, useFrame (the callback is registered), the JSX
RenderDNAHelix ==
  /\ suspense = "ready"
  /\ NextStep = "DNAHelix"
  /\ done' = done + 1
  /\ UNCHANGED << math, sceneVars, strandGeometry, nodeMatrices, rungMatrices,
                  rungScale, groupRef, meshRef, mesh, written, frameVars, fnVars >>

\* BackboneStrand({phaseOffset, colour}): useMemo builds the tube geometry
RenderBackboneStrand(s) ==
  /\ NextStep = "Strand" \o s
  /\ done' = done + 1
  /\ strandGeometry' = [strandGeometry EXCEPT ![s] =
                          [ geometry |-> BackboneStrandGeometry(math, PhaseOf(s)),
                            colour   |-> ColourOf(s) ]]
  /\ UNCHANGED << math, sceneVars, nodeMatrices, rungMatrices, rungScale, groupRef,
                  meshRef, mesh, written, frameVars, fnVars >>

\* BackboneNodes({phaseOffset, colour}): useMemo computes the matrices
RenderBackboneNodes(s) ==
  /\ NextStep = "Nodes" \o s
  /\ done' = done + 1
  /\ nodeMatrices' = [nodeMatrices EXCEPT ![s] = NodeMatrices(math, PhaseOf(s))]
  /\ UNCHANGED << math, sceneVars, strandGeometry, rungMatrices, rungScale, groupRef,
                  meshRef, mesh, written, frameVars, fnVars >>

\* BasePairRungs(): useMemo computes the matrices
RenderBasePairRungs ==
  /\ NextStep = "Rungs"
  /\ done' = done + 1
  /\ rungMatrices' = RungMatrices(math)
  /\ rungScale' = RungScales(math)
  /\ UNCHANGED << math, sceneVars, strandGeometry, nodeMatrices, groupRef, meshRef,
                  mesh, written, frameVars, fnVars >>

\* new THREE.InstancedMesh(undefined, undefined, count): every instance at identity
InstancedMesh(count) ==
  [ count          |-> count,
    instanceMatrix |-> AsSeq([i \in 1..count |-> Matrix4Identity]),
    needsUpdate    |-> FALSE ]

\* an instanced mesh one instance short of the base pairs
MeshArgsCountShort(id) == BASE_PAIR_COUNT - 1

\* <instancedMesh args={[undefined, undefined, BASE_PAIR_COUNT]}>
MeshArgsCount(id) == BASE_PAIR_COUNT

\* the commit: the scene objects are created and the refs attached
Commit ==
  /\ NextStep = "Commit"
  /\ done' = done + 1
  /\ groupRef' = TRUE
  /\ meshRef' = MeshIds
  /\ mesh' = [id \in MeshIds |-> InstancedMesh(MeshArgsCount(id))]
  /\ UNCHANGED << math, sceneVars, strandGeometry, nodeMatrices, rungMatrices,
                  rungScale, written, frameVars, fnVars >>

\* InstancedMesh.setMatrixAt(index, matrix): the sixteen elements are stored into
\* the Float32Array at index * 16; a store past the end of a typed array is dropped
setMatrixAt(im, index, matrix) ==
  IF index < im.count
  THEN [im EXCEPT !.instanceMatrix[index + 1] =
          AsSeq([k \in 1..Len(matrix) |-> Fround(matrix[k])])]
  ELSE im

\* matrices.forEach((mat, i) => meshRef.current.setMatrixAt(i, mat)): every call
\* stores at its own index, so instance k is as the call with index k - 1 leaves it
ForEachSetMatrixAt(im, matrices) ==
  [im EXCEPT !.instanceMatrix =
     AsSeq([k \in 1..im.count |->
              IF k <= Len(matrices)
              THEN setMatrixAt(im, k - 1, matrices[k]).instanceMatrix[k]
              ELSE im.instanceMatrix[k]])]

\* the indices forEach passes to setMatrixAt
ForEachIndices(matrices) == {k - 1 : k \in 1..Len(matrices)}

\* the body of the effect of BasePairRungs and of BackboneNodes on mesh id:
\* if (!meshRef.current) return; forEach ...; instanceMatrix.needsUpdate = true
ApplyMatrices(id, matrices) ==
  IF id \notin meshRef
  THEN UNCHANGED << mesh, written >>
  ELSE /\ mesh' = [mesh EXCEPT ![id] =
                     [ForEachSetMatrixAt(@, matrices) EXCEPT !.needsUpdate = TRUE]]
       /\ written' = [written EXCEPT ![id] = @ \cup ForEachIndices(matrices)]

\* the effect of BackboneNodes
NodesEffect(s) ==
  /\ NextStep = "EffectNodes" \o s
  /\ done' = done + 1
  /\ ApplyMatrices(NodesMesh(s), nodeMatrices[s])
  /\ UNCHANGED << math, sceneVars, strandGeometry, nodeMatrices, rungMatrices,
                  rungScale, groupRef, meshRef, frameVars, fnVars >>

\* the effect of BasePairRungs
RungsEffect ==
  /\ NextStep = "EffectRungs"
  /\ done' = done + 1
  /\ ApplyMatrices("rungs", rungMatrices)
  /\ UNCHANGED << math, sceneVars, strandGeometry, nodeMatrices, rungMatrices,
                  rungScale, groupRef, meshRef, frameVars, fnVars >>

(***************************************************************************)
(* DNAHelix.tsx: the frame callback                                        *)
(***************************************************************************)
\* the frame callback without its guard on groupRef.current: the transform is
\* written whether or not the group exists
FrameUnguarded(t) ==
  /\ done >= 1
  /\ frames < MaxFrames
  /\ FLe(clock, t)
  /\ frames' = frames + 1
  /\ clock' = t
  /\ group' = FrameTransform(math, t)
  /\ UNCHANGED << skipped, math, sceneVars, helixVars, fnVars >>

\* useFrame(({ clock }) => ...) with clock.getElapsedTime() = t.  The render loop
\* may call it from the moment it is registered; the clock does not run backwards.
Frame(t) ==
  /\ done >= 1
  /\ frames < MaxFrames
  /\ FLe(clock, t)
  /\ frames' = frames + 1
  /\ clock' = t
  /\ IF ~groupRef
     THEN /\ skipped' = skipped + 1
          /\ UNCHANGED group
     ELSE /\ group' = FrameTransform(math, t)
          /\ UNCHANGED skipped
  /\ UNCHANGED << math, sceneVars, helixVars, fnVars >>

(***************************************************************************)
(* Specification of the program                                            *)
(***************************************************************************)
\* before anything has loaded
Unmounted ==
  /\ suspense = "pending"
  /\ loadFailed = FALSE
  /\ dom = HeroScene("pending")
  /\ done = 0
  /\ strandGeometry = [s \in Strands |-> None]
  /\ nodeMatrices = [s \in Strands |-> << >>]
  /\ rungMatrices = << >>
  /\ rungScale = << >>
  /\ groupRef = FALSE
  /\ group = [rotationY |-> FZero, positionY |-> FZero]
  /\ meshRef = {}
  /\ mesh = [id \in MeshIds |-> None]
  /\ written = [id \in MeshIds |-> {}]
  /\ frames = 0
  /\ skipped = 0
  /\ clock = FZero
  /\ called = [curve |-> {}, nodes |-> {}]
  /\ fnOut = [curve |-> [p \in Phases |-> None], nodes |-> [p \in Phases |-> None]]

Init ==
  /\ math \in Libms
  /\ Unmounted

Next ==
  \/ LoadDone
  \/ LoadFail
  \/ RenderDNAHelix
  \/ \E s \in Strands : RenderBackboneStrand(s)
  \/ \E s \in Strands : RenderBackboneNodes(s)
  \/ RenderBasePairRungs
  \/ Commit
  \/ \E s \in Strands : NodesEffect(s)
  \/ RungsEffect
  \/ \E t \in TimeSamples : Frame(t)

Spec == Init /\ [][Next]_vars


(***************************************************************************)
(* Specification of the geometry functions on their own: buildBackboneCurve *)
(* and the matrices of BackboneNodes applied to every phase offset of       *)
(* Phases, in any order.                                                    *)
(***************************************************************************)
\* buildBackboneCurve(p)
CallBuildBackboneCurve(p) ==
  /\ p \notin called.curve
  /\ called' = [called EXCEPT !.curve = @ \cup {p}]
  /\ fnOut' = [fnOut EXCEPT !.curve[p] = buildBackboneCurve(math, p)]
  /\ UNCHANGED << math, sceneVars, helixVars, frameVars >>

\* the useMemo of BackboneNodes with phaseOffset = p
CallBackboneNodes(p) ==
  /\ p \notin called.nodes
  /\ called' = [called EXCEPT !.nodes = @ \cup {p}]
  /\ fnOut' = [fnOut EXCEPT !.nodes[p] = NodeMatrices(math, p)]
  /\ UNCHANGED << math, sceneVars, helixVars, frameVars >>

FnInit ==
  /\ math \in Libms
  /\ Unmounted

FnNext ==
  \/ \E p \in Phases : CallBuildBackboneCurve(p)
  \/ \E p \in Phases : CallBackboneNodes(p)

FnSpec == FnInit /\ [][FnNext]_vars

(***************************************************************************)
(* Properties                                                              *)
(***************************************************************************)
\* the loop indices of the base pairs
BasePairs == 0..(BASE_PAIR_COUNT - 1)

\* every useMemo of the helix has run
Rendered == done >= 6

\* every step of MountOrder has run
Mounted == done = Len(MountOrder)

\* the translation of a Matrix4
PositionOf(matrix) == <<matrix[13], matrix[14], matrix[15]>>

\* the second column of a Matrix4: the image of the unit vector along y, the
\* long axis of a cylinder
LongAxisOf(matrix) == <<matrix[5], matrix[6], matrix[7]>>

\* the point of the helix at the given angle and height
HelixPoint(lib, angle, y) ==
  Vector3(FMul(MathCos(lib, angle), HELIX_RADIUS), y,
          FMul(MathSin(lib, angle), HELIX_RADIUS))

\* i * verticalStep - (20 * verticalStep) / 2 for the index t
LevelOf(t) ==
  FSub(FMul(t, VERTICAL_STEP), FDivPow2(FMul(FInt(20), VERTICAL_STEP), 1))

\* the value (-1)^t[1] * t[2] * 2^t[3] is the binary64 value x
SameValue(t, x) ==
  LET e == IF t[3] <= x.e THEN t[3] ELSE x.e
  IN  IF BIsZero(t[2]) \/ FIsZero(x)
      THEN BIsZero(t[2]) /\ FIsZero(x)
      ELSE t[1] = x.s /\ BCmp(BShl(t[2], t[3] - e), BShl(x.m, x.e - e)) = 0

\* c is the midpoint of a and b, with no rounding: a + b = 2 * c
IsMidpoint(a, b, c) == SameValue(ExactSum(a, b), FDivPow2(c, -1))

\* |x - y| <= tolerance
Within(x, y, tolerance) == FLe(FAbs(FSub(x, y)), tolerance)

\* 0.15 and 0.5
Amplitude == D(0,-55,153,19660,26214,13107)

Half == D(0,-53,128,0,0,0)

\* 2^-49 and 2^-50: eight and four units in the last place of HELIX_RADIUS
ReflectionTolerance == D(0,-101,128,0,0,0)

EndPointTolerance == D(0,-102,128,0,0,0)

\* the matrix BasePairRungs computes for base pair i is positioned exactly at the
\* midpoint of the points of the helix at angle i * TWIST_PER_STEP and at angle
\* i * TWIST_PER_STEP + PI of the same level, and the height of the cylinder
\* prototype times the scale along its long axis is 2 * HELIX_RADIUS
RungAtMidpoint(lib, i) ==
  LET angle  == FMul(FInt(i), TWIST_PER_STEP)
      a      == HelixPoint(lib, angle, LevelOf(FInt(i)))
      b      == HelixPoint(lib, FAdd(angle, MathPI), LevelOf(FInt(i)))
      centre == PositionOf(RungMatrices(lib)[i + 1])
  IN  /\ IsMidpoint(a[1], b[1], centre[1])
      /\ IsMidpoint(a[3], b[3], centre[3])
      /\ centre[2] = a[2]
      /\ centre[2] = b[2]
      /\ FMul(RungCylinderHeight, RungScales(lib)[i + 1][2]) = FMul(FInt(2), HELIX_RADIUS)

\* RungAtMidpoint of every base pair, for every engine
RungsAtMidpointOf == [m \in Libms |-> \A i \in BasePairs : RungAtMidpoint(m, i)]

\* C1: the matrices and scales of the rungs are those BasePairRungs computes, and
\* for every base pair i the matrix is positioned exactly at the midpoint of the
\* strand-A point (angle i * TWIST_PER_STEP) and the strand-B point (angle
\* i * TWIST_PER_STEP + PI) of the same level y, and the height of the cylinder
\* prototype times the scale along its long axis is 2 * HELIX_RADIUS
C1_RungAtMidpoint ==
  Rendered =>
    /\ rungMatrices = RungMatrices(math)
    /\ rungScale = RungScales(math)
    /\ Len(rungMatrices) = BASE_PAIR_COUNT
    /\ RungsAtMidpointOf[math]

\* the rungs have been computed
C1_Witness == Rendered /\ Len(rungMatrices) = BASE_PAIR_COUNT /\ Len(rungScale) = BASE_PAIR_COUNT

\* the end of rung i towards strand A and the end towards strand B: the centre
\* minus and plus half the length along the long axis (the prototype is 2 high,
\* so half the length is the long axis of the matrix)
RungEndA(lib, i) ==
  LET c == PositionOf(RungMatrices(lib)[i + 1])
      h == LongAxisOf(RungMatrices(lib)[i + 1])
  IN  <<FSub(c[1], h[1]), FSub(c[2], h[2]), FSub(c[3], h[3])>>

RungEndB(lib, i) ==
  LET c == PositionOf(RungMatrices(lib)[i + 1])
      h == LongAxisOf(RungMatrices(lib)[i + 1])
  IN  <<FAdd(c[1], h[1]), FAdd(c[2], h[2]), FAdd(c[3], h[3])>>

\* the position BackboneNodes gives to node i of the strand with phase offset p
NodePosition(lib, p, i) == PositionOf(NodeMatrices(lib, p)[i + 1])

\* the centre of rung i and node i of the two strands have exactly the same y
SameLevel(lib, i) ==
  /\ PositionOf(RungMatrices(lib)[i + 1])[2] = NodePosition(lib, PhaseA, i)[2]
  /\ PositionOf(RungMatrices(lib)[i + 1])[2] = NodePosition(lib, PhaseB, i)[2]

\* the end points of every rung are the positions of the nodes, for every engine
EndPointsCoincideOf ==
  [m \in Libms |->
     \A i \in BasePairs :
       /\ RungEndA(m, i) = NodePosition(m, PhaseA, i)
       /\ RungEndB(m, i) = NodePosition(m, PhaseB, i)
       /\ SameLevel(m, i)]

\* every coordinate of the end points of every rung is within EndPointTolerance
\* of that of the node, for every engine
EndPointsWithinRoundingOf ==
  [m \in Libms |->
     \A i \in BasePairs :
       /\ \A k \in 1..3 :
            /\ Within(RungEndA(m, i)[k], NodePosition(m, PhaseA, i)[k], EndPointTolerance)
            /\ Within(RungEndB(m, i)[k], NodePosition(m, PhaseB, i)[k], EndPointTolerance)
       /\ SameLevel(m, i)]

\* the matrices of rungs and nodes are those BasePairRungs and BackboneNodes compute
GeometryAsComputed ==
  /\ rungMatrices = RungMatrices(math)
  /\ \A s \in Strands : nodeMatrices[s] = NodeMatrices(math, PhaseOf(s))

\* C2 as stated: for every base pair i the two end points of rung i coincide with
\* the positions of node i of strand A and of strand B, and the rung and the two
\* nodes have the same y
C2_EndPointsCoincide ==
  Rendered => GeometryAsComputed /\ EndPointsCoincideOf[math]

\* C2: for every base pair i each coordinate of the two end points of rung i is
\* within 2^-50 of that of the position of node i of strand A and of strand B,
\* and the centre of the rung and the two nodes have exactly the same y
C2_EndPointsWithinRounding ==
  Rendered => GeometryAsComputed /\ EndPointsWithinRoundingOf[math]

\* rungs and nodes have been computed and the end point of the first rung is off
\* the node of strand B
C2_Witness ==
  /\ Rendered
  /\ GeometryAsComputed
  /\ LET c == PositionOf(rungMatrices[1])
         h == LongAxisOf(rungMatrices[1])
     IN  <<FAdd(c[1], h[1]), FAdd(c[2], h[2]), FAdd(c[3], h[3])>>
           # PositionOf(nodeMatrices["B"][1])

\* C3: once mounted, each strand has 20 node matrices, there are 20 rung
\* matrices and every instanced mesh has 20 instances; at no time is an index
\* outside 0..19 passed to setMatrixAt
C3_CountsAreBasePairCount ==
  /\ \A id \in MeshIds : written[id] \subseteq 0..(20 - 1)
  /\ \A id \in meshRef : mesh[id].count = 20 /\ Len(mesh[id].instanceMatrix) = 20
  /\ Rendered =>
       /\ \A s \in Strands : Len(nodeMatrices[s]) = 20
       /\ Len(rungMatrices) = 20
  /\ Mounted =>
       /\ meshRef = MeshIds
       /\ \A id \in MeshIds : written[id] = 0..(20 - 1)
  /\ BASE_PAIR_COUNT = 20

\* the helix is mounted and the effects have written the instances
C3_Witness == Mounted /\ \A id \in MeshIds : written[id] # {} /\ mesh[id].needsUpdate

\* buildBackboneCurve(p) has exactly 81 points, point i at angle
\* (i / 4) * TWIST_PER_STEP + p of the helix and at height
\* (i / 4) * VERTICAL_STEP - (20 * VERTICAL_STEP) / 2, and is not closed
CurveAsStated(lib, p) ==
  LET curve == buildBackboneCurve(lib, p)
  IN  /\ Len(curve.points) = 4 * 20 + 1
      /\ \A i \in 0..80 :
           LET t == FDivPow2(FInt(i), 2)
           IN  curve.points[i + 1] =
                 HelixPoint(lib, FAdd(FMul(t, TWIST_PER_STEP), p), LevelOf(t))
      /\ curve.closed = FALSE

\* CurveAsStated for every engine and phase offset
CurveAsStatedOf == [m \in Libms |-> [p \in Phases |-> CurveAsStated(m, p)]]

\* C4: for every phase offset p, buildBackboneCurve(p) has exactly 81 points,
\* point i at angle (i / 4) * TWIST_PER_STEP + p of the helix and at height
\* (i / 4) * VERTICAL_STEP - (20 * VERTICAL_STEP) / 2, and is not closed
C4_CurveHas81Points ==
  \A p \in called.curve :
    /\ fnOut.curve[p] = buildBackboneCurve(math, p)
    /\ Len(fnOut.curve[p].points) = 81
    /\ ~fnOut.curve[p].closed
    /\ CurveAsStatedOf[math][p]

\* the curve of every phase offset has been built
C4_Witness == called.curve = Phases /\ \A p \in Phases : Len(fnOut.curve[p].points) > 0

\* C5: for every phase offset p and every base pair i, point 4 * i of
\* buildBackboneCurve(p) is exactly the position of matrix i of BackboneNodes
\* with phase offset p
C5_CurveMeetsNodes ==
  \A p \in called.curve \cap called.nodes :
    \A i \in BasePairs :
      fnOut.curve[p].points[4 * i + 1] = PositionOf(fnOut.nodes[p][i + 1])

\* curve and nodes of every phase offset have been computed
C5_Witness ==
  /\ called.curve = Phases
  /\ called.nodes = Phases
  /\ \A p \in Phases : Len(fnOut.nodes[p]) = BASE_PAIR_COUNT

\* the points of the curve of the strand with phase offset p, and the positions
\* of its nodes
StrandPoints(lib, p) == buildBackboneCurve(lib, p).points

NodePositions(lib, p) ==
  AsSeq([k \in 1..BASE_PAIR_COUNT |-> PositionOf(NodeMatrices(lib, p)[k])])

\* the points a and b are reflections of each other through the y axis
Reflected(a, b) == a[1] = FNeg(b[1]) /\ a[3] = FNeg(b[3]) /\ a[2] = b[2]

\* the same with x and z up to the tolerance
ReflectedWithin(a, b, tolerance) ==
  /\ Within(a[1], FNeg(b[1]), tolerance)
  /\ Within(a[3], FNeg(b[3]), tolerance)
  /\ a[2] = b[2]

\* every point of the curves and every node of the strands with phase offsets
\* PhaseA and PhaseB are exact reflections, for every engine
ExactReflectionOf ==
  [m \in Libms |->
     /\ Len(StrandPoints(m, PhaseA)) = Len(StrandPoints(m, PhaseB))
     /\ \A k \in 1..Len(StrandPoints(m, PhaseA)) :
          Reflected(StrandPoints(m, PhaseA)[k], StrandPoints(m, PhaseB)[k])
     /\ \A k \in 1..BASE_PAIR_COUNT :
          Reflected(NodePositions(m, PhaseA)[k], NodePositions(m, PhaseB)[k])]

\* the same up to ReflectionTolerance in x and z
ReflectionWithinRoundingOf ==
  [m \in Libms |->
     /\ Len(StrandPoints(m, PhaseA)) = Len(StrandPoints(m, PhaseB))
     /\ \A k \in 1..Len(StrandPoints(m, PhaseA)) :
          ReflectedWithin(StrandPoints(m, PhaseA)[k], StrandPoints(m, PhaseB)[k],
                          ReflectionTolerance)
     /\ \A k \in 1..BASE_PAIR_COUNT :
          ReflectedWithin(NodePositions(m, PhaseA)[k], NodePositions(m, PhaseB)[k],
                          ReflectionTolerance)]

\* the curves and node matrices of the two strands are those buildBackboneCurve
\* and BackboneNodes compute for the phase offsets DNAHelix passes
StrandsAsComputed ==
  \A s \in Strands :
    /\ strandGeometry[s].geometry.path = buildBackboneCurve(math, PhaseOf(s))
    /\ nodeMatrices[s] = NodeMatrices(math, PhaseOf(s))

\* C6 as stated: at every point of the curves and every node of strands A and B,
\* A.x = -B.x, A.z = -B.z and A.y = B.y
C6_ExactReflection ==
  Rendered => StrandsAsComputed /\ ExactReflectionOf[math]

\* C6: at every point of the curves and every node of strands A and B, A.y = B.y
\* exactly, and A.x and A.z are within 2^-49 of -B.x and -B.z
C6_ReflectionWithinRounding ==
  Rendered => StrandsAsComputed /\ ReflectionWithinRoundingOf[math]

\* both strands are computed, and the first points of the curves are not exact
\* reflections
C6_Witness ==
  /\ Rendered
  /\ ~Reflected(strandGeometry["A"].geometry.path.points[1],
                strandGeometry["B"].geometry.path.points[1])

\* C7: after a frame callback that passed the guard, with elapsed time t = clock,
\* rotationY is t * 0.15 and positionY is sin(0.5 * t) * 0.15; at t = 0 both are
\* 0, at t = PI positionY is 0.15, and |positionY| <= 0.15
C7_FrameTransform ==
  frames > skipped =>
    /\ group.rotationY = FMul(clock, Amplitude)
    /\ group.positionY = FMul(MathSin(math, FMul(Half, clock)), Amplitude)
    /\ clock = FZero => group.rotationY = FZero /\ group.positionY = FZero
    /\ clock = MathPI => group.positionY = Amplitude
    /\ FLe(FAbs(group.positionY), Amplitude)

\* a frame callback has passed the guard at t = PI
C7_Witness == frames > skipped /\ clock = MathPI

\* C9: a frame callback leaves the strand geometry, the node and rung matrices
\* and the instanced meshes as they are, and one that runs while groupRef.current
\* is not set leaves the group as it is as well
C9_FramesChangeOnlyTheGroup ==
  [][frames' # frames =>
       /\ UNCHANGED << strandGeometry, nodeMatrices, rungMatrices, rungScale,
                       meshRef, mesh, written, groupRef, done >>
       /\ ~groupRef => UNCHANGED group]_vars

\* frame callbacks have run before and after the group existed, the helix is
\* mounted and the group has moved
C9_Witness ==
  /\ Mounted
  /\ skipped > 0
  /\ frames > skipped
  /\ group.rotationY # FZero

\* C10: exactly one of placeholder and canvas is on screen, the placeholder
\* exactly while loading has not finished; after a failed load the screen is as
\* while loading; the overlay is on screen in every state
C10_PlaceholderWhileLoading ==
  /\ ("fallback" \in dom) # ("canvas" \in dom)
  /\ ("fallback" \in dom) <=> (suspense # "ready")
  /\ loadFailed => suspense = "pending" /\ dom = {"fallback", "overlay"}
  /\ "overlay" \in dom
  /\ dom \subseteq {"fallback", "canvas", "overlay"}

\* the load has failed
C10_Witness == loadFailed /\ "fallback" \in dom
====
